---- MODULE Spec2Model ----
(***************************************************************************)
(* Tempus: lifecycle of one ephemeral preview environment.                 *)
(*                                                                         *)
(* The module follows one preview_id (a fresh uuid4 per create, so the     *)
(* sub-resources of different previews never meet) through create_preview, *)
(* extend_preview, delete_preview, the scheduler and the cleanup Lambda    *)
(* handler.  Each handler is a chain of blocking provider calls; a step of *)
(* the model is one provider call, so handlers interleave as the HTTP      *)
(* workers and the Lambda do.  A handler's locals are gone once it has     *)
(* returned.  Time is counted in hours from the create request.            *)
(*                                                                         *)
(* Spec        the lifecycle, with a bounded number of failing calls       *)
(* FairSpec    create, extend and expiry with every call answering, and    *)
(*             every started handler, the scheduler and the clock making   *)
(*             progress                                                    *)
(* DeleteSpec  create, delete and expiry with every call answering         *)
(* SagaSpec    invocations of the cleanup handler alone, on the states     *)
(*             the lifecycle leaves behind, with any call failing          *)
(* StatusSpec  the status derivation on every combination of its inputs    *)
(* CreateSpec  one create request alone, any of its calls and any of its   *)
(*             compensation calls failing, with status requests            *)
(* RequestSpec every request of the API, valid or not, on one preview id,  *)
(*             every provider call answering                               *)
(* DrainSpec   delete_ecs_service alone, call by call, the service         *)
(*             draining or not, any call failing                           *)
(* BindSpec    create with _add_listener_rule call by call, create_rule    *)
(*             answering a rule, a priority conflict or another error      *)
(* TeardownSpec delete_eventbridge_rule alone, call by call, on a rule     *)
(*             with or without target, present or absent, any call failing *)
(* GrantSpec   the statement id schedule_cleanup grants and the one       *)
(*             delete_eventbridge_rule removes, for ids of UUID shape      *)
(* CronSpec    the cron expression schedule_cleanup builds for an          *)
(*             expires_at given to the second                              *)
(* ListSpec    GET /preview over a table of several items, each provider   *)
(*             query answering or failing per item                         *)
(* ScenarioSpec                                                            *)
(*             one preview created, watched through status requests while  *)
(*             the providers report and the hours pass, until it expires   *)
(***************************************************************************)
EXTENDS Integers, FiniteSets, Sequences, TLC

\* ------------------------------------------------------------- bounds
MaxTime == 3            \* no expiry lies beyond hour MaxTime
MaxTtlInput == 2        \* ttl_hours drawn from 1..MaxTtlInput
MaxExtendInput == 2     \* additional_hours drawn from 1..MaxExtendInput
MaxFaults == 1          \* provider calls that fail in one behaviour of Spec
SagaMaxFaults == 5      \* provider calls that fail in one behaviour of SagaSpec
ScenarioTtl == 2        \* ttl_hours of the create request of ScenarioSpec
CreateMaxFaults == 5    \* provider calls that fail in one behaviour of CreateSpec
MaxItems == 2           \* items in the table GET /preview scans
MaxRunning == 1         \* runningCount answered by describe_services: 0..MaxRunning
DrainMaxFaults == 1     \* provider calls that fail in one behaviour of DrainSpec
TeardownMaxFaults == 2  \* calls that fail in one behaviour of TeardownSpec
GrantMaxFaults == 1     \* calls that fail in one behaviour of GrantSpec
MaxUtcSeconds == 130    \* utcnow of a create request, in seconds: 0..MaxUtcSeconds

\* ---------------------------------------------------- program constants
MinTtlHours == 1
MaxTtlHours == 24
MinAdditionalHours == 1
MaxAdditionalHours == 24
max_retries == 10       \* ecs_service.py 224
PriorityRange == 49000  \* ecs_service.py 221, 249
PriorityBase == 1000    \* ecs_service.py 221, 249
max_wait == 300         \* cleanup.py 178, seconds
PollInterval == 10      \* cleanup.py 188-189, seconds

PreviewId == "p"
None == "None"

\* preview.py 129: f"tempus-cleanup-{preview_id}"
CanonicalRuleName(preview_id) == "tempus-cleanup-" \o preview_id

\* The EventBridge rule names the account can hold for this preview: the
\* canonical one and one that no code path derives.
RuleNames == {CanonicalRuleName(PreviewId), "tempus-cleanup-other"}

Slots == {"manual", "scheduled"}

\* What get_service_status and get_target_group_health can hand to _build_status:
\* no dict, a dict without the key, or one of the provider's values.
ServiceStatuses == {"NoDict", "NoStatus", "ACTIVE", "DRAINING", "INACTIVE"}
HealthSummaries == {"NoDict", "NoSummary", "healthy", "unhealthy", "initial"}

VARIABLES
    now,             \* the clock (UTC), in hours
    crossed,         \* the handlers in flight that have seen a cron time pass
    target_group,    \* ELBv2: the preview's target group exists
    ecs_service,     \* ECS: the preview's service exists
    listener_rule,   \* ELBv2: the preview's listener rule exists
    rules,           \* EventBridge: rule name -> rule
    record,          \* DynamoDB: the item keyed by preview_id
    cpc, cfault, compfail, c_expires,   \* create_preview: position, failed step, locals
    c_order,         \* create_preview: the compensation calls, in the order issued
    epc, emeta, eh,                     \* extend_preview: position, item read, hours
    dpc, dmeta,                         \* delete_preview: position, item read
    saga,            \* the cleanup Lambda's invocations, one per slot
    nfaults,         \* provider calls that have failed so far
    fault_limit,     \* provider calls that may fail in this behaviour
    service_status,       \* ECS: what get_service_status reports
    target_group_health,  \* ELBv2: what get_target_group_health reports
    status,          \* the last answer of GET /preview/{id}[/status]
    created_expires, \* history: expires_at stored by create
    granted,         \* history: hours added by the extends that persisted
    afterDelete,     \* history: delete returned "deleted" and no request was issued since
    items,           \* DynamoDB: the items a scan of the table returns, in order
    service_answer,  \* ECS: per item, what get_service_status does when asked
    health_answer,   \* ELBv2: per item, what get_target_group_health does when asked
    list_response,   \* the answer of GET /preview
    response,        \* per route, the last HTTP response; none while a request is in flight
    drain,           \* delete_ecs_service on its own: position, wait_time, calls made
    binding,         \* _add_listener_rule on its own: position, attempt, priority, calls
    teardown,        \* delete_eventbridge_rule on its own: position, calls in order
    grant,           \* the function's policy: the statement granted, the one removed
    cron             \* schedule_cleanup's expression for an expires_at, to the second

clock == <<now, crossed>>
provider == <<target_group, ecs_service, listener_rule, rules, record>>
createv == <<cpc, cfault, compfail, c_expires, c_order>>
extendv == <<epc, emeta, eh>>
deletev == <<dpc, dmeta>>
faults == <<nfaults, fault_limit>>
view == <<service_status, target_group_health, status>>
history == <<created_expires, granted, afterDelete>>
listv == <<items, service_answer, health_answer, list_response>>
callv == <<drain, binding, teardown, grant, cron>>
vars == <<clock, provider, createv, extendv, deletev, saga, faults, view, history, listv,
          response, callv>>

\* ------------------------------------------------------------ provider
NoRule == [exists |-> FALSE, at |-> 0, fired |-> FALSE, target |-> FALSE]
NoRecord == [exists |-> FALSE, service_arn |-> FALSE, target_group_arn |-> FALSE,
             listener_rule_arn |-> FALSE, eventbridge_rule_name |-> None,
             expires_at |-> 0]

\* A provider call answers; or it fails (n calls fail), within the behaviour's limit.
NoFault == UNCHANGED <<nfaults, fault_limit>>
Fault(n) ==
    /\ nfaults + n <= fault_limit
    /\ nfaults' = nfaults + n
    /\ UNCHANGED fault_limit

\* cleanup.py 64-67: the handler's locals; nothing else of the item is used.
NoLocals == [found |-> FALSE, service_arn |-> FALSE, target_group_arn |-> FALSE,
             listener_rule_arn |-> FALSE, eventbridge_rule_name |-> None]

\* One invocation of the handler: position, what the metadata read gave, locals,
\* the error list, the teardown calls issued, the response; failed: the steps
\* whose provider call answered an error; order: the steps in the order of
\* their calls.
IdleSaga == [pc |-> "idle", lookup |-> None, meta |-> NoLocals, errors |-> {},
             attempted |-> {}, outcome |-> None, second |-> FALSE,
             failed |-> {}, order |-> << >>]

Running(s) == saga[s].pc # "idle"

\* preview.py 298-311, 270-280: what extend_preview and delete_preview use of the
\* item they read.
NoMeta == [expires_at |-> 0, eventbridge_rule_name |-> None]
MetaOf(item) == [expires_at |-> item.expires_at,
                 eventbridge_rule_name |-> item.eventbridge_rule_name]

\* The account before the create request; limit: the calls that may fail.
\* The routes whose response is kept, and the responses.
Routes == {"create", "extend", "delete"}
NoResponse == [code |-> None, detail |-> None]
NotFound == [code |-> "404", detail |-> "Preview not found"]
InternalServerError == [code |-> "500", detail |-> "Internal Server Error"]
Ok == [code |-> "200", detail |-> None]
UnprocessableEntity == [code |-> "422", detail |-> "validation"]
Answer(route, answer) == response' = [response EXCEPT ![route] = answer]

\* delete_ecs_service not called: no call made, nothing observed.
IdleDrain == [pc |-> "idle", wait_time |-> 0, polls |-> 0, running_count |-> None,
              deleted |-> FALSE]

\* _add_listener_rule not called.
IdleBinding == [pc |-> "idle", attempt |-> 0, priority |-> 0, calls |-> 0, error |-> None,
                tried |-> {}]

\* delete_eventbridge_rule not called; the rule's target is the function or
\* something else, and the function's policy holds the rule's statement or not.
IdleTeardown(arn, permission) ==
    [pc |-> "idle", calls |-> << >>, listed |-> FALSE, arn |-> arn,
     permission |-> permission]

\* No permission asked for yet for the preview of this id (a sequence of
\* characters); the policy holds no statement.
IdleGrant(preview_id) ==
    [pc |-> "idle", preview_id |-> preview_id, policy |-> {}, removed |-> << >>]

\* No expression built.
NoCron == [pc |-> "idle", expires_at |-> 0, fire |-> 0]

NoCalls ==
    /\ drain = IdleDrain
    /\ binding = IdleBinding
    /\ teardown = IdleTeardown("lambda", FALSE)
    /\ grant = IdleGrant(<< >>)
    /\ cron = NoCron

NoListResponse == [code |-> None, items |-> << >>, total |-> 0]

NoListing ==
    /\ items = << >> /\ service_answer = << >> /\ health_answer = << >>
    /\ list_response = NoListResponse

Start(limit) ==
    /\ now = 0 /\ crossed = {}
    /\ target_group = FALSE /\ ecs_service = FALSE /\ listener_rule = FALSE
    /\ rules = [n \in RuleNames |-> NoRule]
    /\ record = NoRecord
    /\ cpc = "idle" /\ cfault = "none" /\ compfail = FALSE /\ c_expires = 0
    /\ c_order = << >>
    /\ epc = "idle" /\ emeta = NoMeta /\ eh = 0
    /\ dpc = "idle" /\ dmeta = NoMeta
    /\ saga = [s \in Slots |-> IdleSaga]
    /\ nfaults = 0 /\ fault_limit = limit
    /\ service_status = "NoDict" /\ target_group_health = "NoDict" /\ status = None
    /\ created_expires = 0 /\ granted = 0
    /\ afterDelete = FALSE
    /\ NoListing
    /\ response = [r \in Routes |-> NoResponse]
    /\ NoCalls

Init == Start(MaxFaults)

\* ------------------------------------------------------ create_preview
\* The expiry without the time to live added.
expires_at_without_ttl(utcnow, ttl_hours) == utcnow

\* preview.py 117: datetime.utcnow() + timedelta(hours=request.ttl_hours).
expires_at_of(utcnow, ttl_hours) == utcnow + ttl_hours

\* The field without its lower limit.
ttl_hours_unlimited_below(ttl_hours) == ttl_hours <= MaxTtlHours

\* models.py 14-20: ttl_hours: int = Field(ge=1, le=24).
ttl_hours_valid(ttl_hours) == ttl_hours >= MinTtlHours /\ ttl_hours <= MaxTtlHours

\* models.py 81-86: additional_hours: int = Field(ge=1, le=24).
additional_hours_valid(additional_hours) ==
    additional_hours >= MinAdditionalHours /\ additional_hours <= MaxAdditionalHours

\* models.py 14-20: the request model rejects the body; FastAPI answers 422 and
\* create_preview is not entered.
create_preview_rejected(ttl) ==
    /\ cpc = "idle"
    /\ ~ttl_hours_valid(ttl)
    /\ Answer("create", UnprocessableEntity)
    /\ UNCHANGED <<listv, callv, clock, provider, createv, extendv, deletev, saga, faults, view,
                   history>>

\* models.py 81-86: the same for the body of extend_preview.
extend_preview_rejected(additional_hours) ==
    /\ epc = "idle"
    /\ ~additional_hours_valid(additional_hours)
    /\ Answer("extend", UnprocessableEntity)
    /\ UNCHANGED <<listv, callv, clock, provider, createv, extendv, deletev, saga, faults, view,
                   history>>

\* preview.py 116-117: the request passed validation; expires_at = utcnow + ttl.
create_preview(ttl) ==
    /\ cpc = "idle"
    /\ ttl_hours_valid(ttl)
    /\ now + ttl <= MaxTime
    /\ cpc' = "target_group"
    /\ c_expires' = expires_at_of(now, ttl)
    /\ Answer("create", NoResponse)
    /\ UNCHANGED <<listv, callv, clock, provider, cfault, compfail, c_order, extendv, deletev,
                   saga, faults, view,
                   history>>

\* The item stored before the schedule is made.
create_next_store_first(step) ==
    CASE step = "target_group" -> "ecs_service"
      [] step = "ecs_service" -> "listener_rule"
      [] step = "listener_rule" -> "store"
      [] step = "store" -> "schedule"
      [] step = "schedule" -> "ok"

\* ecs_service.py 69-90, preview.py 119-156: the statement that follows each
\* step of create that returned.
create_next(step) ==
    CASE step = "target_group" -> "ecs_service"
      [] step = "ecs_service" -> "listener_rule"
      [] step = "listener_rule" -> "schedule"
      [] step = "schedule" -> "store"
      [] step = "store" -> "ok"

\* ecs_service.py 71: _create_target_group.
create_target_group ==
    /\ cpc = "target_group"
    /\ \/ /\ target_group' = TRUE
          /\ cpc' = create_next("target_group")
          /\ NoFault
          /\ UNCHANGED cfault
       \/ /\ Fault(1)
          /\ cfault' = "pool"
          /\ cpc' = "cleanup"
          /\ UNCHANGED target_group
    /\ UNCHANGED <<listv, callv, response, clock, ecs_service, listener_rule, rules, record,
                   compfail, c_expires,
                   c_order,
                   extendv, deletev, saga, view, history>>

\* ecs_service.py 74-84: _create_task_definition, then _create_ecs_service.
create_ecs_service ==
    /\ cpc = "ecs_service"
    /\ \/ /\ ecs_service' = TRUE
          /\ cpc' = create_next("ecs_service")
          /\ NoFault
          /\ UNCHANGED cfault
       \/ /\ Fault(1)
          /\ cfault' = "workload"
          /\ cpc' = "cleanup"
          /\ UNCHANGED ecs_service
    /\ UNCHANGED <<listv, callv, response, clock, target_group, listener_rule, rules, record,
                   compfail, c_expires,
                   c_order,
                   extendv, deletev, saga, view, history>>

\* ecs_service.py 87: _add_listener_rule.
add_listener_rule ==
    /\ cpc = "listener_rule"
    /\ \/ /\ listener_rule' = TRUE
          /\ cpc' = create_next("listener_rule")
          /\ NoFault
          /\ UNCHANGED cfault
       \/ /\ Fault(1)
          /\ cfault' = "rule"
          /\ cpc' = "cleanup"
          /\ UNCHANGED listener_rule
    /\ UNCHANGED <<listv, callv, response, clock, target_group, ecs_service, rules, record,
                   compfail, c_expires,
                   c_order,
                   extendv, deletev, saga, view, history>>

\* ecs_service.py 96-97: the locals the failed create_preview_service holds.
\* listener_rule_arn is bound by the last statement of the try that can raise.
target_group_arn_local == cfault # "pool"
listener_rule_arn_local == FALSE

\* ecs_service.py 270-294: the deletion calls _cleanup_on_failure issues, in
\* the order of its statements.
cleanup_on_failure_calls(target_group_arn, listener_rule_arn) ==
    (IF listener_rule_arn THEN <<"lrule">> ELSE << >>)
    \o <<"ecs">>
    \o (IF target_group_arn THEN <<"tg">> ELSE << >>)

\* The compensation that leaves the target group.
cleanup_on_failure_service_only(target_group_arn, listener_rule_arn, sf, tf) ==
    /\ listener_rule' = IF listener_rule_arn THEN FALSE ELSE listener_rule
    /\ ecs_service' = IF sf THEN ecs_service ELSE FALSE
    /\ target_group' = target_group

\* ecs_service.py 261-297: _cleanup_on_failure.  sf, tf: the service deletion,
\* the target group deletion fails (a ClientError, swallowed).
cleanup_on_failure(target_group_arn, listener_rule_arn, sf, tf) ==
    /\ listener_rule' = IF listener_rule_arn THEN FALSE ELSE listener_rule
    /\ ecs_service' = IF sf THEN ecs_service ELSE FALSE
    /\ target_group' = IF target_group_arn /\ ~tf THEN FALSE ELSE target_group

\* ecs_service.py 92-101: the except branch of create_preview_service; re-raises.
create_preview_service_except ==
    /\ cpc = "cleanup"
    /\ \E sf \in BOOLEAN, tf \in BOOLEAN :
          /\ tf => target_group_arn_local
          /\ Fault((IF sf THEN 1 ELSE 0) + (IF tf THEN 1 ELSE 0))
          /\ compfail' = (compfail \/ sf \/ tf)
          /\ cleanup_on_failure(target_group_arn_local, listener_rule_arn_local, sf, tf)
    /\ c_order' = c_order \o cleanup_on_failure_calls(target_group_arn_local,
                                                      listener_rule_arn_local)
    /\ cpc' = "except"
    /\ UNCHANGED <<listv, callv, response, clock, rules, record, cfault, c_expires, extendv,
                   deletev, saga, view,
                   history>>

\* eventbridge_service.py 57-74: put_rule then put_targets under rule_name; the
\* cron expression is the fire time.
put_rule_and_targets(rule_name, expires_at) ==
    [rules EXCEPT ![rule_name] =
        [exists |-> TRUE, at |-> expires_at, fired |-> FALSE, target |-> TRUE]]

\* eventbridge_service.py 57-62: put_rule alone (put_targets raised after it).
put_rule_only(rule_name, expires_at) ==
    [rules EXCEPT ![rule_name] =
        [exists |-> TRUE, at |-> expires_at, fired |-> FALSE, target |-> FALSE]]

\* eventbridge_service.py 110-118: remove the targets, delete the rule; a rule
\* that does not exist answers ResourceNotFoundException, which is not raised.
remove_rule(rule_name) == [rules EXCEPT ![rule_name] = NoRule]

\* preview.py 129-134: schedule_cleanup under the canonical name.  It raises
\* before put_rule, between put_rule and put_targets, or after both (the
\* permission step, eventbridge_service.py 78-94).
schedule_cleanup ==
    /\ cpc = "schedule"
    /\ \/ /\ rules' = put_rule_and_targets(CanonicalRuleName(PreviewId), c_expires)
          /\ cpc' = create_next("schedule")
          /\ NoFault
          /\ UNCHANGED cfault
       \/ /\ Fault(1)
          /\ cfault' = "schedule"
          /\ cpc' = "except"
          /\ \/ UNCHANGED rules
             \/ rules' = put_rule_only(CanonicalRuleName(PreviewId), c_expires)
             \/ rules' = put_rule_and_targets(CanonicalRuleName(PreviewId), c_expires)
    /\ UNCHANGED <<listv, callv, response, clock, target_group, ecs_service, listener_rule,
                   record, compfail,
                   c_expires, c_order, extendv, deletev, saga, view, history>>

\* dynamodb_service.py 45-55: the item put_item writes.
FullRecord(expires_at, eventbridge_rule_name) ==
    [exists |-> TRUE, service_arn |-> TRUE, target_group_arn |-> TRUE,
     listener_rule_arn |-> TRUE, eventbridge_rule_name |-> eventbridge_rule_name,
     expires_at |-> expires_at]

\* preview.py 137-156: store_preview_metadata, then the response.
store_preview_metadata ==
    /\ cpc = "store"
    /\ \/ /\ record' = FullRecord(c_expires, CanonicalRuleName(PreviewId))
          /\ created_expires' = c_expires
          /\ cpc' = create_next("store")
          /\ c_expires' = 0
          /\ NoFault
          /\ Answer("create", Ok)
          /\ UNCHANGED cfault
       \/ /\ Fault(1)
          /\ cfault' = "store"
          /\ cpc' = "except"
          /\ UNCHANGED <<record, created_expires, c_expires, response>>
    /\ UNCHANGED <<listv, callv, clock, target_group, ecs_service, listener_rule, rules,
                   compfail, c_order,
                   extendv, deletev, saga, view, granted, afterDelete>>

\* The 500 naming the failure of the compensation when there was one.
HTTPException_by_last_error(cause, compensation_failed) ==
    [code |-> "500", detail |-> IF compensation_failed THEN "cleanup" ELSE cause]

\* preview.py 179-182: HTTPException(500, "Failed to create preview environment:
\* {str(e)}"), e being the exception the try block raised.
HTTPException_create(cause, compensation_failed) == [code |-> "500", detail |-> cause]

\* preview.py 158-182: the except branch of create_preview: delete_rule and
\* delete_preview_metadata, each failure swallowed, then the 500.  Nothing here
\* touches the ECS service, the target group or the listener rule.  rf, mf: the
\* call fails.
create_preview_except ==
    /\ cpc = "except"
    /\ \E rf \in BOOLEAN, mf \in BOOLEAN :
          /\ Fault((IF rf THEN 1 ELSE 0) + (IF mf THEN 1 ELSE 0))
          /\ compfail' = (compfail \/ rf \/ mf)
          /\ rules' = IF rf THEN rules ELSE remove_rule(CanonicalRuleName(PreviewId))
          /\ record' = IF mf THEN record ELSE NoRecord
          /\ Answer("create", HTTPException_create(cfault, compfail \/ rf \/ mf))
    /\ cpc' = "failed"
    /\ c_expires' = 0
    /\ c_order' = c_order \o <<"eb", "ddb">>
    /\ UNCHANGED <<listv, callv, clock, target_group, ecs_service, listener_rule, cfault, extendv,
                   deletev, saga, view, history>>

\* ------------------------------------------------------ extend_preview
\* The extension counted from the clock instead of from the stored expiry.
new_expires_from_now(metadata, additional_hours) == now + additional_hours

\* The hours taken off the stored expiry.
new_expires_subtracted(metadata, additional_hours) ==
    metadata.expires_at - additional_hours

\* preview.py 303-305: the stored expiry parsed, additional_hours added, formatted.
new_expires(metadata, additional_hours) == metadata.expires_at + additional_hours

\* The reschedule under a name of its own instead of the stored one.
extend_rule_name_fresh(metadata, preview_id) == "tempus-cleanup-other"

\* preview.py 311: the stored rule name, else the canonical one.
extend_rule_name(metadata, preview_id) ==
    IF metadata.eventbridge_rule_name # None
    THEN metadata.eventbridge_rule_name
    ELSE CanonicalRuleName(preview_id)

\* dynamodb_service.py 138-143: update_item with SET expires_at and no condition
\* expression: DynamoDB edits the item, or adds it when the key is absent.
update_item_expires_at(item, expires_at) ==
    IF item.exists
    THEN [item EXCEPT !.expires_at = expires_at]
    ELSE [NoRecord EXCEPT !.exists = TRUE, !.expires_at = expires_at]

\* preview.py 298-300: the request passed validation; the item is read, 404 if absent.
extend_preview(additional_hours) ==
    /\ epc = "idle"
    /\ additional_hours_valid(additional_hours)
    /\ IF record.exists
       THEN /\ record.expires_at + additional_hours <= MaxTime
            /\ epc' = "update"
            /\ emeta' = MetaOf(record)
            /\ eh' = additional_hours
            /\ Answer("extend", NoResponse)
       ELSE /\ Answer("extend", NotFound)
            /\ UNCHANGED <<epc, emeta, eh>>
    /\ afterDelete' = FALSE
    /\ UNCHANGED <<listv, callv, clock, provider, createv, deletev, saga, faults, view,
                   created_expires,
                   granted>>

\* preview.py 308: update_expires_at; a ClientError propagates (500).
update_expires_at ==
    /\ epc = "update"
    /\ \/ /\ record' = update_item_expires_at(record, new_expires(emeta, eh))
          /\ granted' = IF record.exists THEN granted + eh ELSE granted
          /\ epc' = "resched"
          /\ NoFault
          /\ UNCHANGED <<emeta, eh, crossed, response>>
       \/ /\ Fault(1)
          /\ epc' = "idle" /\ emeta' = NoMeta /\ eh' = 0
          /\ crossed' = crossed \ {"extend"}
          /\ Answer("extend", InternalServerError)
          /\ UNCHANGED <<record, granted>>
    /\ UNCHANGED <<listv, callv, now, target_group, ecs_service, listener_rule, rules, createv,
                   deletev, saga, view, created_expires, afterDelete>>

\* preview.py 312-314: reschedule_cleanup under rule_name replaces the rule of that
\* name, then the response.
reschedule_ok ==
    /\ epc = "resched"
    /\ rules' = put_rule_and_targets(extend_rule_name(emeta, PreviewId),
                                     new_expires(emeta, eh))
    /\ epc' = "idle" /\ emeta' = NoMeta /\ eh' = 0
    /\ Answer("extend", Ok)
    /\ NoFault

\* preview.py 312: reschedule_cleanup raises a ClientError, which propagates (500).
reschedule_fails ==
    /\ epc = "resched"
    /\ Fault(1)
    /\ epc' = "idle" /\ emeta' = NoMeta /\ eh' = 0
    /\ Answer("extend", InternalServerError)
    /\ UNCHANGED rules

reschedule_cleanup ==
    /\ reschedule_ok \/ reschedule_fails
    /\ crossed' = crossed \ {"extend"}
    /\ UNCHANGED <<listv, callv, now, target_group, ecs_service, listener_rule, record, createv,
                   deletev, saga, view, history>>

\* ------------------------------------------------- the cleanup handler
\* A fresh invocation of handler({"preview_id": preview_id}); second: a run that
\* found the record has ended before this one starts.
StartSaga ==
    [IdleSaga EXCEPT !.pc = "read",
        !.second = \E t \in Slots : saga[t].pc = "done" /\ saga[t].meta.found]

\* ------------------------------------------------------ delete_preview
\* preview.py 270-272: the item is read, 404 if absent.
delete_preview ==
    /\ dpc = "idle"
    /\ ~Running("manual")
    /\ IF record.exists
       THEN /\ dpc' = "invoke"
            /\ dmeta' = MetaOf(record)
            /\ Answer("delete", NoResponse)
       ELSE /\ Answer("delete", NotFound)
            /\ UNCHANGED <<dpc, dmeta>>
    /\ afterDelete' = FALSE
    /\ UNCHANGED <<listv, callv, clock, provider, createv, extendv, saga, faults, view,
                   created_expires,
                   granted>>

\* The failed invocation passed over.
after_invoke_cleanup_swallowing(raised) == "cancel"

\* preview.py 275-278: invoke_cleanup is called outside any try; an exception
\* it raises leaves the route, else the rule deletion follows.
after_invoke_cleanup(raised) == IF raised THEN "idle" ELSE "cancel"

\* preview.py 275: invoke_cleanup starts the handler asynchronously; a ClientError
\* propagates (500).
invoke_cleanup ==
    /\ dpc = "invoke"
    /\ \/ /\ saga' = [saga EXCEPT !["manual"] = StartSaga]
          /\ dpc' = after_invoke_cleanup(FALSE)
          /\ NoFault
          /\ UNCHANGED <<dmeta, crossed, response>>
       \/ /\ Fault(1)
          /\ dpc' = after_invoke_cleanup(TRUE) /\ dmeta' = NoMeta
          /\ crossed' = crossed \ {"delete"}
          /\ Answer("delete", InternalServerError)
          /\ UNCHANGED saga
    /\ UNCHANGED <<listv, callv, now, provider, createv, extendv, view, history>>

\* The failed cancellation ends the request.
after_delete_rule_propagating(raised) == IF raised THEN "idle" ELSE "metadata"

\* preview.py 278-285: try delete_rule, except Exception: pass; the statement
\* that follows either way.
after_delete_rule(raised) == "metadata"

\* preview.py 278-282: delete_rule of the stored name, failure swallowed.
delete_preview_delete_rule ==
    /\ dpc = "cancel"
    /\ \E raised \in BOOLEAN :
          /\ raised => /\ dmeta.eventbridge_rule_name # None
                       /\ rules[dmeta.eventbridge_rule_name].exists
          /\ IF raised THEN Fault(1) ELSE NoFault
          /\ rules' = IF dmeta.eventbridge_rule_name # None /\ ~raised
                      THEN remove_rule(dmeta.eventbridge_rule_name)
                      ELSE rules
          /\ dpc' = after_delete_rule(raised)
    /\ UNCHANGED <<listv, callv, response, clock, target_group, ecs_service, listener_rule,
                   record, createv, extendv,
                   dmeta, saga, view, history>>

\* preview.py 285-287: delete_preview_metadata, then {"status": "deleted"}.
delete_ok ==
    /\ dpc = "metadata"
    /\ record' = NoRecord
    /\ created_expires' = 0 /\ granted' = 0
    /\ afterDelete' = TRUE
    /\ Answer("delete", [code |-> "200", detail |-> "deleted"])
    /\ NoFault

\* dynamodb_service.py 111-115: a ClientError other than not-found propagates (500).
delete_fails ==
    /\ dpc = "metadata"
    /\ Fault(1)
    /\ Answer("delete", InternalServerError)
    /\ UNCHANGED <<record, created_expires, granted, afterDelete>>

delete_preview_metadata ==
    /\ delete_ok \/ delete_fails
    /\ dpc' = "idle" /\ dmeta' = NoMeta
    /\ crossed' = crossed \ {"delete"}
    /\ UNCHANGED <<listv, callv, now, target_group, ecs_service, listener_rule, rules, createv,
                   extendv,
                   saga, view>>

\* cleanup.py 64-67: the locals read off the item; the rule name defaults to the
\* canonical one.
SagaLocals(item, preview_id) ==
    [found |-> TRUE,
     service_arn |-> item.service_arn,
     target_group_arn |-> item.target_group_arn,
     listener_rule_arn |-> item.listener_rule_arn,
     eventbridge_rule_name |->
         IF item.eventbridge_rule_name # None
         THEN item.eventbridge_rule_name
         ELSE CanonicalRuleName(preview_id)]

\* Every step called, whatever the item holds.
step_called_always(locals, step) == TRUE

\* cleanup.py 72, 80, 88, 96: the test in front of each teardown step.
step_called(locals, step) ==
    CASE step = "ecs" -> locals.service_arn
      [] step = "lrule" -> locals.listener_rule_arn
      [] step = "tg" -> locals.target_group_arn
      [] step = "eb" -> locals.eventbridge_rule_name # None

\* cleanup.py 110-128: 207 with the error list, else 200.
handler_result(errors) == IF errors = {} THEN "200" ELSE "207"

\* The handler without its outer except: what was raised leaves the handler.
handler_reraise == "raised"

\* cleanup.py 130-135: the outer except turns whatever was raised into a 500.
handler_except == "500"

\* The handler answering an absent item as an error.
handler_not_found_404 == "404"

\* cleanup.py 57-62: no item, so 200 and nothing more.
handler_not_found == "200"

\* cleanup.py 42-51: an event without preview_id (400), or a string that
\* json.loads rejects (raised, so 500).
handler_bad_event(s, event) ==
    /\ ~Running(s)
    /\ saga' = [saga EXCEPT ![s] = [IdleSaga EXCEPT !.pc = "done",
                   !.outcome = IF event = "no_preview_id" THEN "400" ELSE handler_except]]
    /\ UNCHANGED <<listv, callv, response, clock, provider, createv, extendv, deletev, faults,
                   view, history>>

\* The handler is invoked with {"preview_id": preview_id}.
handler_invoke(s) ==
    /\ ~Running(s)
    /\ saga' = [saga EXCEPT ![s] = StartSaga]
    /\ UNCHANGED <<listv, callv, response, clock, provider, createv, extendv, deletev, faults,
                   view, history>>

\* cleanup.py 56-67: get_preview_metadata; an empty result ends the run, a
\* ClientError is re-raised into the outer except.
saga_get_preview_metadata(s) ==
    /\ saga[s].pc = "read"
    /\ \/ /\ saga' = [saga EXCEPT ![s] =
                 IF record.exists
                 THEN [@ EXCEPT !.pc = "ecs", !.lookup = "item",
                                !.meta = SagaLocals(record, PreviewId)]
                 ELSE [@ EXCEPT !.pc = "done", !.lookup = "empty",
                                !.outcome = handler_not_found]]
          /\ NoFault
       \/ /\ Fault(1)
          /\ saga' = [saga EXCEPT ![s] = [@ EXCEPT !.pc = "done", !.lookup = "raised",
                                                   !.outcome = handler_except]]
    /\ UNCHANGED <<listv, callv, response, clock, provider, createv, extendv, deletev, view,
                   history>>

\* The target group's step placed before the listener rule's.
next_step_pool_first(step) ==
    CASE step = "ecs" -> "tg"
      [] step = "tg" -> "lrule"
      [] step = "lrule" -> "eb"
      [] step = "eb" -> "ddb"
      [] step = "ddb" -> "done"

\* cleanup.py 71-108: the statement order of the handler's teardown steps.
next_step(step) ==
    CASE step = "ecs" -> "lrule"
      [] step = "lrule" -> "tg"
      [] step = "tg" -> "eb"
      [] step = "eb" -> "ddb"
      [] step = "ddb" -> "done"

\* A teardown step whose exception ends the run.
Attempt_or_abort(run, step, raised, next) ==
    [run EXCEPT !.attempted = @ \cup {step},
                !.errors = IF raised THEN @ \cup {step} ELSE @,
                !.failed = IF raised THEN @ \cup {step} ELSE @,
                !.order = Append(@, step),
                !.outcome = IF raised THEN "500" ELSE @,
                !.pc = IF raised THEN "done" ELSE next]

\* One teardown step of the handler: the call is attempted, and an exception it
\* raises is appended to errors.
Attempt(run, step, raised, next) ==
    [run EXCEPT !.attempted = @ \cup {step},
                !.errors = IF raised THEN @ \cup {step} ELSE @,
                !.failed = IF raised THEN @ \cup {step} ELSE @,
                !.order = Append(@, step),
                !.pc = next]

\* The error code with which the provider answers the deletion of a resource
\* that does not exist.
NotFoundAnswer(step) ==
    CASE step = "ecs" -> "ServiceNotFoundException"
      [] step = "lrule" -> "RuleNotFound"
      [] step = "tg" -> "TargetGroupNotFound"
      [] step = "eb" -> "ResourceNotFoundException"

\* What the provider answers to the deletion call of a step.
ProviderAnswer(step, exists) == IF exists THEN "ok" ELSE NotFoundAnswer(step)

\* A step function that re-raises every ClientError.
step_raises_every_error(step, answer) == answer # "ok"

\* cleanup.py 197-202, 210-214, 222-226, 256-260: the except ClientError of a
\* step function returns on the step's not-found code and re-raises the rest.
step_raises(step, answer) ==
    /\ answer # "ok"
    /\ CASE step = "ecs" -> answer # "ServiceNotFoundException"
         [] step = "lrule" -> answer # "RuleNotFound"
         [] step = "tg" -> answer # "TargetGroupNotFound"
         [] step = "eb" -> answer \notin {"ResourceNotFoundException", "ValidationException"}

\* cleanup.py 72-101: one step function called inside its try/except.
Called(run, step, answer, next) ==
    Attempt(run, step, step_raises(step, answer), next)

\* cleanup.py 72-77 and 163-202: delete_ecs_service; ServiceNotFoundException is
\* success.
saga_delete_ecs_service(s) ==
    /\ saga[s].pc = "ecs"
    /\ IF step_called(saga[s].meta, "ecs")
       THEN \/ /\ ecs_service' = FALSE
               /\ saga' = [saga EXCEPT ![s] = Called(@, "ecs", ProviderAnswer("ecs", ecs_service),
                                      next_step("ecs"))]
               /\ NoFault
            \/ /\ Fault(1)
               /\ saga' = [saga EXCEPT ![s] = Called(@, "ecs", "ClientError", next_step("ecs"))]
               /\ UNCHANGED ecs_service
       ELSE /\ saga' = [saga EXCEPT ![s].pc = next_step("ecs")]
            /\ NoFault
            /\ UNCHANGED ecs_service
    /\ UNCHANGED <<listv, callv, response, clock, target_group, listener_rule, rules, record,
                   createv, extendv,
                   deletev, view, history>>

\* cleanup.py 80-85 and 205-214: delete_listener_rule; RuleNotFound is success.
saga_delete_listener_rule(s) ==
    /\ saga[s].pc = "lrule"
    /\ IF step_called(saga[s].meta, "lrule")
       THEN \/ /\ listener_rule' = FALSE
               /\ saga' = [saga EXCEPT ![s] = Called(@, "lrule", ProviderAnswer("lrule", listener_rule),
                                      next_step("lrule"))]
               /\ NoFault
            \/ /\ Fault(1)
               /\ saga' = [saga EXCEPT ![s] = Called(@, "lrule", "ClientError", next_step("lrule"))]
               /\ UNCHANGED listener_rule
       ELSE /\ saga' = [saga EXCEPT ![s].pc = next_step("lrule")]
            /\ NoFault
            /\ UNCHANGED listener_rule
    /\ UNCHANGED <<listv, callv, response, clock, target_group, ecs_service, rules, record,
                   createv, extendv,
                   deletev, view, history>>

\* cleanup.py 88-93 and 217-226: delete_target_group; TargetGroupNotFound is
\* success, and ELBv2 refuses (ResourceInUse) a group a listener rule forwards to.
saga_delete_target_group(s) ==
    /\ saga[s].pc = "tg"
    /\ IF step_called(saga[s].meta, "tg")
       THEN \/ /\ ~(target_group /\ listener_rule)
               /\ target_group' = FALSE
               /\ saga' = [saga EXCEPT ![s] = Called(@, "tg", ProviderAnswer("tg", target_group),
                                      next_step("tg"))]
               /\ NoFault
            \/ /\ target_group /\ listener_rule
               /\ saga' = [saga EXCEPT ![s] = Called(@, "tg", "ResourceInUse", next_step("tg"))]
               /\ NoFault
               /\ UNCHANGED target_group
            \/ /\ ~(target_group /\ listener_rule)
               /\ Fault(1)
               /\ saga' = [saga EXCEPT ![s] = Called(@, "tg", "ClientError", next_step("tg"))]
               /\ UNCHANGED target_group
       ELSE /\ saga' = [saga EXCEPT ![s].pc = next_step("tg")]
            /\ NoFault
            /\ UNCHANGED target_group
    /\ UNCHANGED <<listv, callv, response, clock, ecs_service, listener_rule, rules, record,
                   createv, extendv,
                   deletev, view, history>>

\* cleanup.py 96-101 and 229-260: delete_eventbridge_rule; ResourceNotFoundException
\* is success.
saga_delete_eventbridge_rule(s) ==
    /\ saga[s].pc = "eb"
    /\ \/ /\ rules' = remove_rule(saga[s].meta.eventbridge_rule_name)
          /\ saga' = [saga EXCEPT ![s] = Called(@, "eb", ProviderAnswer("eb", rules[saga[s].meta.eventbridge_rule_name].exists),
                                      next_step("eb"))]
          /\ NoFault
       \/ /\ Fault(1)
          /\ saga' = [saga EXCEPT ![s] = Called(@, "eb", "ClientError", next_step("eb"))]
          /\ UNCHANGED rules
    /\ UNCHANGED <<listv, callv, response, clock, target_group, ecs_service, listener_rule,
                   record, createv, extendv,
                   deletev, view, history>>

\* cleanup.py 263-273: delete_dynamodb_record logs a ClientError and returns, so
\* nothing is raised to the handler.
delete_dynamodb_record_raises(failed) == FALSE

\* cleanup.py 104-128: delete_dynamodb_record, then the response.
Respond(run) == [run EXCEPT !.outcome = handler_result(run.errors)]

saga_delete_dynamodb_record(s) ==
    /\ saga[s].pc = "ddb"
    /\ \/ /\ record' = NoRecord
          /\ created_expires' = 0 /\ granted' = 0
          /\ saga' = [saga EXCEPT ![s] =
                 Respond(Attempt(@, "ddb", delete_dynamodb_record_raises(FALSE), next_step("ddb")))]
          /\ NoFault
       \/ /\ Fault(1)
          /\ saga' = [saga EXCEPT ![s] =
                 [Respond(Attempt(@, "ddb", delete_dynamodb_record_raises(TRUE), next_step("ddb")))
                     EXCEPT !.failed = @ \cup {"ddb"}]]
          /\ UNCHANGED <<record, created_expires, granted>>
    /\ UNCHANGED <<listv, callv, response, clock, target_group, ecs_service, listener_rule,
                   rules, createv, extendv,
                   deletev, view, afterDelete>>

\* The response leaves the Lambda; the invocation and its locals are gone.
handler_return(s) ==
    /\ saga[s].pc = "done"
    /\ saga' = [saga EXCEPT ![s] = IdleSaga]
    /\ crossed' = crossed \ {s}
    /\ UNCHANGED <<listv, callv, response, now, provider, createv, extendv, deletev, faults,
                   view, history>>

\* -------------------------------------------------------- get / status
\* The derivation with the expiry test strict: the boundary instant still live.
build_status_strict(expires_at, utcnow, status_of_service, health_summary) ==
    IF expires_at < utcnow THEN "expired"
    ELSE IF status_of_service \in {"NoDict", "NoStatus", "DRAINING", "INACTIVE"}
         THEN "creating"
    ELSE IF health_summary \notin {"NoDict", "NoSummary", "healthy"} THEN "degraded"
    ELSE "active"

\* preview.py 56-73: _build_status, the if-chain in its order.
build_status(expires_at, utcnow, status_of_service, health_summary) ==
    IF expires_at <= utcnow THEN "expired"
    ELSE IF status_of_service = "NoDict"
            \/ status_of_service \in {"NoStatus", "DRAINING", "INACTIVE"}
         THEN "creating"
    ELSE IF health_summary # "NoDict" /\ health_summary # "NoSummary"
            /\ health_summary # "healthy"
         THEN "degraded"
    ELSE "active"

\* The status derived without looking whether the item was found.
PreviewStatusResponse_unchecked ==
    build_status(record.expires_at, now, service_status,
                 IF record.target_group_arn THEN target_group_health ELSE "NoDict")

\* preview.py 323-332 (and 201-210): 404 without an item; the target group's
\* health is asked for only when the item names a target group.
PreviewStatusResponse ==
    IF ~record.exists THEN "404"
    ELSE build_status(record.expires_at, now, service_status,
                      IF record.target_group_arn THEN target_group_health ELSE "NoDict")

\* preview.py 195-224: GET /preview/{preview_id}.
get_preview ==
    /\ status' = PreviewStatusResponse
    /\ UNCHANGED <<listv, callv, response, clock, provider, createv, extendv, deletev, saga,
                   faults,
                   service_status, target_group_health, history>>

\* preview.py 317-346: GET /preview/{preview_id}/status.
preview_status ==
    /\ status' = PreviewStatusResponse
    /\ UNCHANGED <<listv, callv, response, clock, provider, createv, extendv, deletev, saga,
                   faults,
                   service_status, target_group_health, history>>

\* ------------------------------------------------------- the scheduler
\* An enabled rule with a target whose cron time has come and that has not fired.
Due(rule_name) ==
    /\ rules[rule_name].exists /\ rules[rule_name].target
    /\ ~rules[rule_name].fired
    /\ rules[rule_name].at = now

\* EventBridge invokes the handler with the rule's input {"preview_id": ...}; the
\* cron expression names one minute of one year, so the rule fires once.
scheduler_fire(rule_name) ==
    /\ Due(rule_name)
    /\ ~Running("scheduled")
    /\ rules' = [rules EXCEPT ![rule_name].fired = TRUE]
    /\ saga' = [saga EXCEPT !["scheduled"] = StartSaga]
    /\ UNCHANGED <<listv, callv, response, clock, target_group, ecs_service, listener_rule,
                   record, createv, extendv,
                   deletev, faults, view, history>>

\* The handlers between their first call and their response.
InFlight ==
    {h \in {"extend"} : epc # "idle"} \cup {h \in {"delete"} : dpc # "idle"}
        \cup {s \in Slots : Running(s)}

\* The cron times still to come.
Pending == {rules[n].at : n \in {m \in RuleNames :
                rules[m].exists /\ rules[m].target /\ ~rules[m].fired /\ rules[m].at > now}}

Min(S) == CHOOSE x \in S : \A y \in S : x <= y

\* Time passes up to the next cron time.  The scheduler does not miss a due
\* rule; create_preview, a chain of blocking calls of seconds, ends within the
\* hour, and any other handler in flight sees at most one cron time pass.
Tick ==
    /\ cpc \in {"ok", "failed"}
    /\ Pending # {}
    /\ \A n \in RuleNames : ~Due(n)
    /\ crossed = {}
    /\ now' = Min(Pending)
    /\ crossed' = InFlight
    /\ UNCHANGED <<listv, callv, response, provider, createv, extendv, deletev, saga, faults,
                   view, history>>

\* --------------------------------------------------------- lifecycle
CreateStep ==
    \/ create_target_group
    \/ create_ecs_service
    \/ add_listener_rule
    \/ create_preview_service_except
    \/ schedule_cleanup
    \/ store_preview_metadata
    \/ create_preview_except

ExtendStep == update_expires_at \/ reschedule_cleanup

DeleteStep == invoke_cleanup \/ delete_preview_delete_rule \/ delete_preview_metadata

SagaStep(s) ==
    \/ saga_get_preview_metadata(s)
    \/ saga_delete_ecs_service(s)
    \/ saga_delete_listener_rule(s)
    \/ saga_delete_target_group(s)
    \/ saga_delete_eventbridge_rule(s)
    \/ saga_delete_dynamodb_record(s)
    \/ handler_return(s)

Next ==
    \/ \E ttl \in 1..MaxTtlInput : create_preview(ttl)
    \/ CreateStep
    \/ \E h \in 1..MaxExtendInput : extend_preview(h)
    \/ ExtendStep
    \/ delete_preview
    \/ DeleteStep
    \/ \E s \in Slots : SagaStep(s)
    \/ \E n \in RuleNames : scheduler_fire(n)
    \/ Tick

Spec == Init /\ [][Next]_vars

\* ----------------------------------------- expiry without failing calls
\* create_preview when every provider call answers.
ReliableCreateStep ==
    \/ create_target_group
    \/ create_ecs_service
    \/ add_listener_rule
    \/ schedule_cleanup
    \/ store_preview_metadata

\* The preview is created, extended and left to expire: no DELETE request, no
\* failing call.
ExpiryNext ==
    \/ \E ttl \in 1..MaxTtlInput : create_preview(ttl)
    \/ ReliableCreateStep
    \/ \E h \in 1..MaxExtendInput : extend_preview(h)
    \/ ExtendStep
    \/ \E s \in Slots : SagaStep(s)
    \/ \E n \in RuleNames : scheduler_fire(n)
    \/ Tick

\* Every handler is a finite chain of blocking calls and runs to its end; the
\* scheduler fires a due rule; the clock reaches the next cron time.
Fairness ==
    /\ WF_vars(ReliableCreateStep)
    /\ WF_vars(ExtendStep)
    /\ \A s \in Slots : WF_vars(SagaStep(s))
    /\ WF_vars(\E n \in RuleNames : scheduler_fire(n))
    /\ WF_vars(Tick)

FairSpec == Start(0) /\ [][ExpiryNext]_vars /\ Fairness

\* ------------------------------------- deletion without failing calls
\* The preview is created and deleted, by DELETE requests and by the scheduler:
\* no extend request, no failing call.
DeleteNext ==
    \/ \E ttl \in 1..MaxTtlInput : create_preview(ttl)
    \/ ReliableCreateStep
    \/ delete_preview
    \/ DeleteStep
    \/ \E s \in Slots : SagaStep(s)
    \/ \E n \in RuleNames : scheduler_fire(n)
    \/ Tick

DeleteSpec == Start(0) /\ [][DeleteNext]_vars

\* ------------------------------------------------ the handler alone
\* What the lifecycle can leave in the account when the handler is invoked: the
\* full record, the record an extend wrote on its own, or none; any of the
\* sub-resources (ELBv2 keeps a target group while a listener rule forwards to
\* it); the schedule that fired, or none.
FiredRule == [exists |-> TRUE, at |-> 1, fired |-> TRUE, target |-> TRUE]

SagaInit ==
    /\ now = 1 /\ crossed = {}
    /\ target_group \in BOOLEAN /\ ecs_service \in BOOLEAN /\ listener_rule \in BOOLEAN
    /\ listener_rule => target_group
    /\ rules \in {[n \in RuleNames |-> NoRule],
                  [n \in RuleNames |->
                      IF n = CanonicalRuleName(PreviewId) THEN FiredRule ELSE NoRule]}
    /\ record \in {NoRecord, FullRecord(1, CanonicalRuleName(PreviewId)),
                   update_item_expires_at(NoRecord, 1)}
    /\ cpc = "ok" /\ cfault = "none" /\ compfail = FALSE /\ c_expires = 0
    /\ c_order = << >>
    /\ epc = "idle" /\ emeta = NoMeta /\ eh = 0
    /\ dpc = "idle" /\ dmeta = NoMeta
    /\ saga = [s \in Slots |-> IdleSaga]
    /\ nfaults = 0 /\ fault_limit = SagaMaxFaults
    /\ service_status = "NoDict" /\ target_group_health = "NoDict" /\ status = None
    /\ created_expires = 0 /\ granted = 0
    /\ afterDelete = FALSE
    /\ NoListing
    /\ response = [r \in Routes |-> NoResponse]
    /\ NoCalls

BadEvents == {"no_preview_id", "bad_json"}

SagaNext ==
    \/ \E s \in Slots : handler_invoke(s)
    \/ \E s \in Slots, event \in BadEvents : handler_bad_event(s, event)
    \/ \E s \in Slots : SagaStep(s)

SagaSpec == SagaInit /\ [][SagaNext]_vars

\* ------------------------------------------------- the status derivation
\* Any instant, any stored expiry (or no record), anything the two providers
\* can report.
StatusInit ==
    /\ now \in 0..MaxTime /\ crossed = {}
    /\ record \in {NoRecord}
           \cup {FullRecord(e, CanonicalRuleName(PreviewId)) : e \in 1..MaxTime}
    /\ target_group = record.exists /\ ecs_service = record.exists
    /\ listener_rule = record.exists
    /\ rules = [n \in RuleNames |-> NoRule]
    /\ cpc = "ok" /\ cfault = "none" /\ compfail = FALSE /\ c_expires = 0
    /\ c_order = << >>
    /\ epc = "idle" /\ emeta = NoMeta /\ eh = 0
    /\ dpc = "idle" /\ dmeta = NoMeta
    /\ saga = [s \in Slots |-> IdleSaga]
    /\ nfaults = 0 /\ fault_limit = 0
    /\ service_status \in ServiceStatuses
    /\ target_group_health \in HealthSummaries
    /\ status = None
    /\ created_expires = 0 /\ granted = 0
    /\ afterDelete = FALSE
    /\ NoListing
    /\ response = [r \in Routes |-> NoResponse]
    /\ NoCalls

StatusNext == get_preview \/ preview_status

StatusSpec == StatusInit /\ [][StatusNext]_vars

\* ---------------------------------------------------- one create alone
CreateNext ==
    \/ \E ttl \in 1..MaxTtlInput : create_preview(ttl)
    \/ CreateStep
    \/ get_preview
    \/ preview_status

CreateSpec == Start(CreateMaxFaults) /\ [][CreateNext]_vars

\* ------------------------------------------------- delete_ecs_service
Others == <<clock, target_group, listener_rule, rules, record, createv, extendv, deletev,
            saga, view, history, listv, response, binding, teardown, grant, cron>>

\* The loop that makes one poll more.
keep_waiting_inclusive(wait_time) == wait_time <= max_wait

\* cleanup.py 180: while wait_time < max_wait.
keep_waiting(wait_time) == wait_time < max_wait

\* cleanup.py 72-74: the handler calls delete_ecs_service(service_arn).
delete_ecs_service ==
    /\ drain.pc = "idle"
    /\ drain' = [drain EXCEPT !.pc = "update"]
    /\ UNCHANGED <<Others, ecs_service, faults>>

\* cleanup.py 170-179 and 198-202: update_service(desiredCount=0); a service that
\* does not exist answers ServiceNotFoundException, on which the function
\* returns; another ClientError is re-raised.
drain_update_service ==
    /\ drain.pc = "update"
    /\ \/ /\ NoFault
          /\ drain' = [drain EXCEPT !.pc =
                IF ~ecs_service THEN "returned"
                ELSE IF keep_waiting(0) THEN "poll" ELSE "delete"]
       \/ /\ Fault(1)
          /\ drain' = [drain EXCEPT !.pc = "raised"]
    /\ UNCHANGED <<Others, ecs_service>>

\* cleanup.py 181-187: describe_services and the test of runningCount.
drain_describe_services ==
    /\ drain.pc = "poll"
    /\ \/ /\ NoFault
          /\ \E running_count \in 0..MaxRunning :
                drain' = [drain EXCEPT !.polls = @ + 1,
                                       !.running_count = running_count,
                                       !.pc = IF running_count = 0 THEN "delete" ELSE "sleep"]
       \/ /\ Fault(1)
          /\ drain' = [drain EXCEPT !.polls = @ + 1, !.pc = "raised"]
    /\ UNCHANGED <<Others, ecs_service>>

\* cleanup.py 188-189 and 180: sleep, add to wait_time, test the loop condition.
drain_sleep ==
    /\ drain.pc = "sleep"
    /\ drain' = [drain EXCEPT !.wait_time = @ + PollInterval,
                              !.pc = IF keep_waiting(drain.wait_time + PollInterval)
                                     THEN "poll" ELSE "delete"]
    /\ UNCHANGED <<Others, ecs_service, faults>>

\* cleanup.py 192-197: delete_service(force=True).
drain_delete_service ==
    /\ drain.pc = "delete"
    /\ \/ /\ NoFault
          /\ ecs_service' = FALSE
          /\ drain' = [drain EXCEPT !.deleted = TRUE, !.pc = "returned"]
       \/ /\ Fault(1)
          /\ drain' = [drain EXCEPT !.pc = "raised"]
          /\ UNCHANGED ecs_service
    /\ UNCHANGED Others

\* The service exists or not; the function is entered once.
DrainInit ==
    /\ now = 1 /\ crossed = {}
    /\ target_group = FALSE /\ ecs_service \in BOOLEAN /\ listener_rule = FALSE
    /\ rules = [n \in RuleNames |-> NoRule]
    /\ record = NoRecord
    /\ cpc = "ok" /\ cfault = "none" /\ compfail = FALSE /\ c_expires = 0
    /\ c_order = << >>
    /\ epc = "idle" /\ emeta = NoMeta /\ eh = 0
    /\ dpc = "idle" /\ dmeta = NoMeta
    /\ saga = [s \in Slots |-> IdleSaga]
    /\ nfaults = 0 /\ fault_limit \in 0..DrainMaxFaults
    /\ service_status = "NoDict" /\ target_group_health = "NoDict" /\ status = None
    /\ created_expires = 0 /\ granted = 0
    /\ afterDelete = FALSE
    /\ NoListing
    /\ response = [r \in Routes |-> NoResponse]
    /\ NoCalls

DrainNext ==
    \/ delete_ecs_service
    \/ drain_update_service
    \/ drain_describe_services
    \/ drain_sleep
    \/ drain_delete_service

\* Every call of the function is a blocking call that answers or raises, and
\* sleep returns.
DrainSpec == DrainInit /\ [][DrainNext]_vars /\ WF_vars(DrainNext)

\* ------------------------------------------------- _add_listener_rule
\* hash(preview_id): values at the ends of the priority range and around zero.
Hashes == {-49001, -1, 0, 1, 47999, 48999, 49000}

\* What elbv2.create_rule answers: the rule, or a ClientError with this code.
CreateRuleAnswers == {"Rules", "PriorityInUse", "ClientError"}

abs(n) == IF n < 0 THEN -n ELSE n

\* ecs_service.py 221: abs(hash(preview_id)) % 49000 + 1000.
initial_priority(hash) == (abs(hash) % PriorityRange) + PriorityBase

\* The perturbation without the base added.
next_priority_without_base(priority) == (priority + 1) % PriorityRange

\* ecs_service.py 249: (priority + 1) % 49000 + 1000.
next_priority(priority) == ((priority + 1) % PriorityRange) + PriorityBase

\* The retry on any error of the provider.
retry_on_any_error(code, attempt) == attempt < max_retries - 1

\* ecs_service.py 247: the error on which the loop goes on.
retry_allowed(code, attempt) == code = "PriorityInUse" /\ attempt < max_retries - 1

\* ecs_service.py 87, 221-226: create_preview_service calls _add_listener_rule,
\* which computes the priority and enters the loop.
add_listener_rule_enter(hash) ==
    /\ cpc = "listener_rule"
    /\ binding.pc = "idle"
    /\ binding' = [IdleBinding EXCEPT !.pc = "create_rule",
                                      !.priority = initial_priority(hash)]
    /\ UNCHANGED <<clock, provider, createv, extendv, deletev, saga, faults, view, history,
                   listv, response, drain, teardown, grant, cron>>

\* ecs_service.py 226-251: one pass of the loop; attempt is range(max_retries)'s.
elbv2_create_rule ==
    /\ binding.pc = "create_rule"
    /\ \E answer \in CreateRuleAnswers :
          binding' =
              [(IF answer = "Rules"
                THEN [binding EXCEPT !.calls = @ + 1, !.error = None, !.pc = "returned"]
                ELSE IF retry_allowed(answer, binding.attempt)
                THEN [binding EXCEPT !.calls = @ + 1, !.error = answer,
                                     !.priority = next_priority(@),
                                     !.attempt = @ + 1]
                ELSE [binding EXCEPT !.calls = @ + 1, !.error = answer, !.pc = "raised"])
                 EXCEPT !.tried = @ \cup {binding.priority}]
    /\ UNCHANGED <<clock, provider, createv, extendv, deletev, saga, faults, view, history,
                   listv, response, drain, teardown, grant, cron>>

\* ecs_service.py 87-101, 256-259: the rule ARN returned to
\* create_preview_service, or the ClientError re-raised into its except.
add_listener_rule_exit ==
    /\ cpc = "listener_rule"
    /\ binding.pc \in {"returned", "raised"}
    /\ binding' = [binding EXCEPT !.pc = "left"]
    /\ IF binding.pc = "returned"
       THEN /\ listener_rule' = TRUE
            /\ cpc' = create_next("listener_rule")
            /\ UNCHANGED cfault
       ELSE /\ cfault' = "rule"
            /\ cpc' = "cleanup"
            /\ UNCHANGED listener_rule
    /\ UNCHANGED <<clock, target_group, ecs_service, rules, record, compfail, c_expires,
                   c_order, extendv, deletev, saga, faults, view, history, listv, response,
                   drain, teardown, grant, cron>>

BindNext ==
    \/ \E ttl \in 1..MaxTtlInput : create_preview(ttl)
    \/ create_target_group
    \/ create_ecs_service
    \/ \E hash \in Hashes : add_listener_rule_enter(hash)
    \/ elbv2_create_rule
    \/ add_listener_rule_exit
    \/ create_preview_service_except
    \/ schedule_cleanup
    \/ store_preview_metadata
    \/ create_preview_except

\* One create request; the calls other than create_rule answer.
BindSpec == Start(0) /\ [][BindNext]_vars

\* --------------------------------------------- delete_eventbridge_rule
TargetArns == {"lambda", "other"}

\* The rule deleted before the permission is removed.
next_call_rule_first(call, listed, arn) ==
    CASE call = "list_targets_by_rule" -> IF listed THEN "remove_targets" ELSE "delete_rule"
      [] call = "remove_targets" -> "delete_rule"
      [] call = "delete_rule" -> IF listed /\ arn = "lambda" THEN "remove_permission"
                                 ELSE "return"
      [] call = "remove_permission" -> "return"

\* cleanup.py 233-254: the call that follows each call, in the order of the
\* statements.  listed: list_targets_by_rule answered targets; arn: the target's.
next_call(call, listed, arn) ==
    CASE call = "list_targets_by_rule" -> IF listed THEN "remove_targets" ELSE "delete_rule"
      [] call = "remove_targets" -> IF arn = "lambda" THEN "remove_permission"
                                    ELSE "delete_rule"
      [] call = "remove_permission" -> "delete_rule"
      [] call = "delete_rule" -> "return"

TheRule == rules[CanonicalRuleName(PreviewId)]

TeardownOthers == <<clock, target_group, ecs_service, listener_rule, record, createv,
                    extendv, deletev, saga, view, history, listv, response, drain, binding,
                    grant, cron>>

Made(call, listed) ==
    [teardown EXCEPT !.calls = Append(@, call),
                     !.listed = listed,
                     !.pc = next_call(call, listed, teardown.arn)]

Raised(call) == [teardown EXCEPT !.calls = Append(@, call), !.pc = "raise"]

\* cleanup.py 91-93: the handler calls delete_eventbridge_rule(rule_name).
delete_eventbridge_rule ==
    /\ teardown.pc = "idle"
    /\ teardown' = [teardown EXCEPT !.pc = "list_targets_by_rule"]
    /\ UNCHANGED <<TeardownOthers, rules, faults>>

\* cleanup.py 233-234, 256-260: list_targets_by_rule; a rule that does not exist
\* answers ResourceNotFoundException, on which the function returns.
events_list_targets_by_rule ==
    /\ teardown.pc = "list_targets_by_rule"
    /\ \/ /\ NoFault
          /\ teardown' = IF TheRule.exists
                         THEN Made("list_targets_by_rule", TheRule.target)
                         ELSE [Made("list_targets_by_rule", FALSE) EXCEPT !.pc = "return"]
       \/ /\ Fault(1)
          /\ teardown' = Raised("list_targets_by_rule")
    /\ UNCHANGED <<TeardownOthers, rules>>

\* cleanup.py 235-236: remove_targets with the ids listed.
events_remove_targets ==
    /\ teardown.pc = "remove_targets"
    /\ \/ /\ NoFault
          /\ rules' = [rules EXCEPT ![CanonicalRuleName(PreviewId)].target = FALSE]
          /\ teardown' = Made("remove_targets", teardown.listed)
       \/ /\ Fault(1)
          /\ teardown' = Raised("remove_targets")
          /\ UNCHANGED rules
    /\ UNCHANGED TeardownOthers

\* cleanup.py 239-251: remove_permission for a target whose ARN is a Lambda
\* function's; its ClientError is caught in the loop.
lambda_remove_permission ==
    /\ teardown.pc = "remove_permission"
    /\ \/ /\ NoFault
          /\ teardown' = [Made("remove_permission", teardown.listed)
                             EXCEPT !.permission = FALSE]
       \/ /\ Fault(1)
          /\ teardown' = Made("remove_permission", teardown.listed)
    /\ UNCHANGED <<TeardownOthers, rules>>

\* cleanup.py 253-255: delete_rule.
events_delete_rule ==
    /\ teardown.pc = "delete_rule"
    /\ \/ /\ NoFault
          /\ rules' = remove_rule(CanonicalRuleName(PreviewId))
          /\ teardown' = Made("delete_rule", teardown.listed)
       \/ /\ Fault(1)
          /\ teardown' = Raised("delete_rule")
          /\ UNCHANGED rules
    /\ UNCHANGED TeardownOthers

\* The rule absent, present with its target, or present with the target gone.
TeardownInit ==
    /\ now = 1 /\ crossed = {}
    /\ target_group = FALSE /\ ecs_service = FALSE /\ listener_rule = FALSE
    /\ \E exists \in BOOLEAN, target \in BOOLEAN :
          /\ target => exists
          /\ rules = [n \in RuleNames |->
                        IF n = CanonicalRuleName(PreviewId)
                        THEN [exists |-> exists, at |-> IF exists THEN 1 ELSE 0,
                              fired |-> exists, target |-> target]
                        ELSE NoRule]
    /\ record = NoRecord
    /\ cpc = "ok" /\ cfault = "none" /\ compfail = FALSE /\ c_expires = 0
    /\ c_order = << >>
    /\ epc = "idle" /\ emeta = NoMeta /\ eh = 0
    /\ dpc = "idle" /\ dmeta = NoMeta
    /\ saga = [s \in Slots |-> IdleSaga]
    /\ nfaults = 0 /\ fault_limit \in 0..TeardownMaxFaults
    /\ service_status = "NoDict" /\ target_group_health = "NoDict" /\ status = None
    /\ created_expires = 0 /\ granted = 0
    /\ afterDelete = FALSE
    /\ NoListing
    /\ response = [r \in Routes |-> NoResponse]
    /\ drain = IdleDrain
    /\ binding = IdleBinding
    /\ grant = IdleGrant(<< >>)
    /\ cron = NoCron
    /\ \E arn \in TargetArns, permission \in BOOLEAN :
          teardown = IdleTeardown(arn, permission)

TeardownNext ==
    \/ delete_eventbridge_rule
    \/ events_list_targets_by_rule
    \/ events_remove_targets
    \/ lambda_remove_permission
    \/ events_delete_rule

TeardownSpec == TeardownInit /\ [][TeardownNext]_vars

\* ------------------------------------------ the permission's statement id
\* Strings whose characters matter are sequences of one-character strings.
Hyphen == "-"

RECURSIVE Repeat(_, _)
Repeat(c, n) == IF n = 0 THEN << >> ELSE <<c>> \o Repeat(c, n - 1)

\* str(uuid.uuid4()), preview.py 116: groups of 8, 4, 4, 4 and 12 hexadecimal
\* digits joined by hyphens.  Each group here is one digit repeated.
HexDigits == {"0", "f"}

Uuid(g) ==
    Repeat(g[1], 8) \o <<Hyphen>> \o Repeat(g[2], 4) \o <<Hyphen>> \o Repeat(g[3], 4)
        \o <<Hyphen>> \o Repeat(g[4], 4) \o <<Hyphen>> \o Repeat(g[5], 12)

Uuids == {Uuid(g) : g \in [1..5 -> HexDigits]}

EventbridgePrefix == <<"e", "v", "e", "n", "t", "b", "r", "i", "d", "g", "e", "-">>
TempusCleanupPrefix ==
    <<"t", "e", "m", "p", "u", "s", "-", "c", "l", "e", "a", "n", "u", "p", "-">>

\* preview.py 129, cleanup.py 67: f"tempus-cleanup-{preview_id}".
rule_name_of(preview_id) == TempusCleanupPrefix \o preview_id

\* s[:n]
Head_n(s, n) == SubSeq(s, 1, IF Len(s) < n THEN Len(s) ELSE n)

\* s[-n:]
Tail_n(s, n) == SubSeq(s, IF Len(s) < n THEN 1 ELSE Len(s) - n + 1, Len(s))

Contains(s, c) == \E i \in 1..Len(s) : s[i] = c

\* s.split(c)[-1]: what follows the last c.
RECURSIVE split_last(_, _)
split_last(s, c) ==
    IF ~Contains(s, c) THEN s
    ELSE LET i == CHOOSE k \in 1..Len(s) : s[k] = c /\ \A j \in (k + 1)..Len(s) : s[j] # c
         IN SubSeq(s, i + 1, Len(s))

\* eventbridge_service.py 86: f"eventbridge-{preview_id[:8]}".
granted_statement_id(preview_id) == EventbridgePrefix \o Head_n(preview_id, 8)

\* cleanup.py 243-247: preview_id_part = rule_name.split("-")[-1] if "-" in
\* rule_name else rule_name[-8:]; f"eventbridge-{preview_id_part[:8]}".
removed_statement_id(rule_name) ==
    EventbridgePrefix
        \o Head_n(IF Contains(rule_name, Hyphen) THEN split_last(rule_name, Hyphen)
                  ELSE Tail_n(rule_name, 8), 8)

GrantOthers == <<clock, provider, createv, extendv, deletev, saga, view, history, listv,
                 response, drain, binding, teardown, cron>>

\* eventbridge_service.py 78-94: add_permission; a ClientError is caught.
lambda_add_permission ==
    /\ grant.pc = "idle"
    /\ \/ /\ NoFault
          /\ grant' = [grant EXCEPT !.pc = "granted",
                          !.policy = @ \cup {granted_statement_id(grant.preview_id)}]
       \/ /\ Fault(1)
          /\ grant' = [grant EXCEPT !.pc = "granted"]
    /\ UNCHANGED GrantOthers

\* cleanup.py 239-251: remove_permission with the statement id taken from the
\* rule name; a statement that is not in the policy answers
\* ResourceNotFoundException, which is caught like every ClientError.
grant_remove_permission ==
    /\ grant.pc = "granted"
    /\ LET statement_id == removed_statement_id(rule_name_of(grant.preview_id))
       IN \/ /\ NoFault
             /\ grant' = [grant EXCEPT !.pc = "removed",
                             !.removed = statement_id,
                             !.policy = @ \ {statement_id}]
          \/ /\ Fault(1)
             /\ grant' = [grant EXCEPT !.pc = "removed", !.removed = statement_id]
    /\ UNCHANGED GrantOthers

\* A preview of any id of the shape, before its schedule is made.
GrantInit ==
    /\ now = 1 /\ crossed = {}
    /\ target_group = FALSE /\ ecs_service = FALSE /\ listener_rule = FALSE
    /\ rules = [n \in RuleNames |-> NoRule]
    /\ record = NoRecord
    /\ cpc = "ok" /\ cfault = "none" /\ compfail = FALSE /\ c_expires = 0
    /\ c_order = << >>
    /\ epc = "idle" /\ emeta = NoMeta /\ eh = 0
    /\ dpc = "idle" /\ dmeta = NoMeta
    /\ saga = [s \in Slots |-> IdleSaga]
    /\ nfaults = 0 /\ fault_limit \in 0..GrantMaxFaults
    /\ service_status = "NoDict" /\ target_group_health = "NoDict" /\ status = None
    /\ created_expires = 0 /\ granted = 0
    /\ afterDelete = FALSE
    /\ NoListing
    /\ response = [r \in Routes |-> NoResponse]
    /\ drain = IdleDrain
    /\ binding = IdleBinding
    /\ teardown = IdleTeardown("lambda", FALSE)
    /\ \E preview_id \in Uuids : grant = IdleGrant(preview_id)
    /\ cron = NoCron

GrantNext == lambda_add_permission \/ grant_remove_permission

GrantSpec == GrantInit /\ [][GrantNext]_vars

\* ------------------------------------------------- the cron expression
\* Times here are seconds since the start of a month; the fraction of a second
\* isoformat writes is left out.
SecondsPerMinute == 60
SecondsPerHour == 3600
SecondsPerDay == 86400

\* preview.py 117: utcnow() + timedelta(hours=ttl_hours), written by isoformat
\* with its seconds; eventbridge_service.py 48: parsed back by fromisoformat.
expires_at_seconds(utcnow, ttl_hours) == utcnow + ttl_hours * SecondsPerHour

\* eventbridge_service.py 54: strftime("cron(%M %H %d %m ? %Y)"): the minute, the
\* hour and the date of expires_at; %S is not part of the format.
cron_expr(expires_at) ==
    [minute |-> (expires_at \div SecondsPerMinute) % 60,
     hour |-> (expires_at \div SecondsPerHour) % 24,
     day |-> expires_at \div SecondsPerDay]

\* The instant a cron expression names: second 0 of its minute.
fire_time(expr) ==
    expr.day * SecondsPerDay + expr.hour * SecondsPerHour + expr.minute * SecondsPerMinute

TtlHours == {MinTtlHours, MaxTtlHours}

\* preview.py 117-134, eventbridge_service.py 46-62: the rule put for the
\* expires_at of a create request received at utcnow.
cron_schedule_cleanup(utcnow, ttl_hours) ==
    /\ cron.pc = "idle"
    /\ cron' = [pc |-> "scheduled",
                expires_at |-> expires_at_seconds(utcnow, ttl_hours),
                fire |-> fire_time(cron_expr(expires_at_seconds(utcnow, ttl_hours)))]
    /\ UNCHANGED <<clock, provider, createv, extendv, deletev, saga, faults, view, history,
                   listv, response, drain, binding, teardown, grant>>

CronInit == Start(0)

CronNext == \E utcnow \in 0..MaxUtcSeconds, ttl_hours \in TtlHours :
                cron_schedule_cleanup(utcnow, ttl_hours)

CronSpec == CronInit /\ [][CronNext]_vars

\* ------------------------------------------------------ every request
\* The bodies a client sends: the limits of the two fields and their neighbours.
TtlInputs == {MinTtlHours - 1, MinTtlHours, MaxTtlInput, MaxTtlHours, MaxTtlHours + 1}
AdditionalHoursInputs ==
    {MinAdditionalHours - 1, MinAdditionalHours, MaxExtendInput, MaxAdditionalHours,
     MaxAdditionalHours + 1}

RequestNext ==
    \/ \E ttl \in TtlInputs : create_preview(ttl)
    \/ \E ttl \in TtlInputs : create_preview_rejected(ttl)
    \/ ReliableCreateStep
    \/ \E h \in AdditionalHoursInputs : extend_preview(h)
    \/ \E h \in AdditionalHoursInputs : extend_preview_rejected(h)
    \/ ExtendStep
    \/ delete_preview
    \/ DeleteStep
    \/ get_preview
    \/ preview_status
    \/ \E s \in Slots : SagaStep(s)

RequestSpec == Start(0) /\ [][RequestNext]_vars

\* ---------------------------------------------------------- list_previews
\* What a provider query does for one item: it returns a value or raises.
Raises == "raises"
ServiceAnswers == ServiceStatuses \cup {Raises}
HealthAnswers == HealthSummaries \cup {Raises}

\* The service query with no try around it.
service_status_unguarded(answer) == answer

\* preview.py 236-239: try: get_service_status(...) except Exception: None.
service_status_or_none(answer) == IF answer = Raises THEN "NoDict" ELSE answer

\* preview.py 240-246: the health query is made only for an item that holds a
\* target_group_arn; except Exception: None.
target_group_health_or_none(meta, answer) ==
    IF ~meta.target_group_arn THEN "NoDict"
    ELSE IF answer = Raises THEN "NoDict"
    ELSE answer

\* preview.py 255: service_status.get("status") if service_status else None.
status_field(status_of_service) ==
    IF status_of_service \in {"NoDict", "NoStatus"} THEN None ELSE status_of_service

\* preview.py 256: target_group_health.get("summary") if target_group_health else None.
summary_field(health) ==
    IF health \in {"NoDict", "NoSummary"} THEN None ELSE health

\* preview.py 247-257: the PreviewStatus built for one item.
PreviewStatusOf(meta, status_of_service, health) ==
    [preview_id |-> meta.preview_id,
     status |-> build_status(meta.expires_at, now, status_of_service, health),
     expires_at |-> meta.expires_at,
     service_status |-> status_field(status_of_service),
     target_group_health |-> summary_field(health)]

\* preview.py 234-260: the loop over the scanned items.  An exception that
\* leaves the loop body ends the request with 500.
RECURSIVE list_loop(_, _)
list_loop(i, results) ==
    IF i > Len(items)
    THEN [code |-> "200", items |-> results, total |-> Len(results)]
    ELSE LET status_of_service == service_status_or_none(service_answer[i])
             health == target_group_health_or_none(items[i], health_answer[i])
         IN  IF Raises \in {status_of_service, health}
             THEN [code |-> "500", items |-> << >>, total |-> 0]
             ELSE list_loop(i + 1,
                     Append(results, PreviewStatusOf(items[i], status_of_service, health)))

\* preview.py 227-260, dynamodb_service.py 117-133: GET /preview.
list_previews ==
    /\ list_response = NoListResponse
    /\ list_response' = list_loop(1, << >>)
    /\ UNCHANGED <<clock, provider, createv, extendv, deletev, saga, faults, view, history,
                   items, service_answer, health_answer, response, callv>>

\* dynamodb_service.py 39-53, 138-143: an item holds preview_id and expires_at;
\* the item update_expires_at created holds no target_group_arn.
ItemsOfTable ==
    [preview_id : 1..MaxItems, expires_at : {1, 2}, target_group_arn : BOOLEAN]

\* Any table of at most MaxItems items with distinct keys, at hour 1, every
\* item expired or not, every query answering anything or failing.
ListInit ==
    /\ now = 1 /\ crossed = {}
    /\ target_group = FALSE /\ ecs_service = FALSE /\ listener_rule = FALSE
    /\ rules = [n \in RuleNames |-> NoRule]
    /\ record = NoRecord
    /\ cpc = "idle" /\ cfault = "none" /\ compfail = FALSE /\ c_expires = 0
    /\ c_order = << >>
    /\ epc = "idle" /\ emeta = NoMeta /\ eh = 0
    /\ dpc = "idle" /\ dmeta = NoMeta
    /\ saga = [s \in Slots |-> IdleSaga]
    /\ nfaults = 0 /\ fault_limit = 0
    /\ service_status = "NoDict" /\ target_group_health = "NoDict" /\ status = None
    /\ created_expires = 0 /\ granted = 0
    /\ afterDelete = FALSE
    /\ \E n \in 0..MaxItems :
          /\ items \in [1..n -> ItemsOfTable]
          /\ \A i \in 1..n : items[i].preview_id = i
          /\ service_answer \in [1..n -> ServiceAnswers]
          /\ health_answer \in [1..n -> HealthAnswers]
    /\ list_response = NoListResponse
    /\ response = [r \in Routes |-> NoResponse]
    /\ NoCalls

ListNext == list_previews

ListSpec == ListInit /\ [][ListNext]_vars

\* ------------------------------------------------ one preview watched
\* ECS reports another status of the service; ELBv2 another health summary.
service_reports(s) ==
    /\ s # service_status
    /\ service_status' = s
    /\ UNCHANGED <<listv, callv, response, clock, provider, createv, extendv, deletev, saga,
                   faults,
                   target_group_health, status, history>>

health_reports(h) ==
    /\ h # target_group_health
    /\ target_group_health' = h
    /\ UNCHANGED <<listv, callv, response, clock, provider, createv, extendv, deletev, saga,
                   faults,
                   service_status, status, history>>

\* An hour passes, whatever is in flight or due.
hour_passes ==
    /\ cpc \in {"ok", "failed"}
    /\ now < MaxTime
    /\ now' = now + 1
    /\ UNCHANGED <<listv, callv, response, crossed, provider, createv, extendv, deletev, saga,
                   faults, view, history>>

ScenarioNext ==
    \/ create_preview(ScenarioTtl)
    \/ ReliableCreateStep
    \/ \E s \in ServiceStatuses : service_reports(s)
    \/ \E h \in HealthSummaries : health_reports(h)
    \/ get_preview
    \/ preview_status
    \/ hour_passes
    \/ \E n \in RuleNames : scheduler_fire(n)
    \/ \E s \in Slots : SagaStep(s)

ScenarioSpec == Start(0) /\ [][ScenarioNext]_vars

\* ------------------------------------------------------------ properties
NoSubResource == ~ecs_service /\ ~listener_rule /\ ~target_group
NoSchedule == \A n \in RuleNames : ~rules[n].exists
TornDown == ~record.exists /\ NoSubResource /\ NoSchedule

\* A schedule that can still fire.
Live(n) == rules[n].exists /\ rules[n].target /\ ~rules[n].fired

\* C1: a create that failed at one of the four creation steps (target group, ECS
\* service, listener rule, schedule), its compensation calls having succeeded,
\* leaves no record, no schedule and no ECS service, target group or listener rule.
C1_CreateAllOrNothing ==
    (cpc = "failed" /\ cfault \in {"pool", "workload", "rule", "schedule"} /\ ~compfail)
        => TornDown

\* C2: under FairSpec (no DELETE request, every call answers, handlers, scheduler
\* and clock make progress) a successfully created preview leads to a state with
\* no record, no sub-resource and no schedule.
C2_EventuallyTornDown == (cpc = "ok") ~> TornDown

\* C3: under DeleteSpec (every call answers), once a DELETE has returned
\* "deleted", no handler is in flight and no schedule can still fire, the preview
\* has no record, no sub-resource and no schedule.
C3_DeleteConverges ==
    (afterDelete /\ InFlight = {} /\ \A n \in RuleNames : ~Live(n)) => TornDown

\* C4 as stated: a handler run started after a run that found the record has
\* ended answers 200, finds no record and issues no teardown call.
C4_SecondRunNoOp ==
    \A s \in Slots :
        (saga[s].pc = "done" /\ saga[s].second)
            => /\ saga[s].outcome = "200"
               /\ saga[s].lookup = "empty"
               /\ saga[s].attempted = {}

\* C4 amended: a run whose metadata read answers with no item ends with 200 and
\* no teardown call; a run after an ended one that still reads the item repeats
\* the teardown and answers 200 or 207; a run whose read fails answers 500 with
\* no teardown call.
C4_RunByLookup ==
    \A s \in Slots :
        saga[s].pc = "done" =>
            /\ saga[s].lookup = "empty" =>
                   saga[s].outcome = "200" /\ saga[s].attempted = {} /\ saga[s].errors = {}
            /\ (saga[s].second /\ saga[s].lookup = "item") =>
                   saga[s].outcome \in {"200", "207"} /\ saga[s].attempted # {}
            /\ saga[s].lookup = "raised" =>
                   saga[s].outcome = "500" /\ saga[s].attempted = {}

\* A second run that found nothing and has answered, the sub-resources and the
\* schedule being gone.
C4_SecondRunFoundNothing ==
    \E s \in Slots :
        /\ saga[s].pc = "done" /\ saga[s].second
        /\ saga[s].lookup = "empty" /\ saga[s].outcome = "200"
        /\ TornDown

\* C5: whatever the event and whichever calls fail, a handler run that has ended
\* holds a response with status code 200, 207, 400 or 500.
C5_StructuredOutcome ==
    \A s \in Slots : saga[s].pc = "done" => saga[s].outcome \in {"200", "207", "400", "500"}

\* A run whose metadata read failed has answered, and one whose teardown calls
\* failed has answered.
C5_FailuresAnswered ==
    /\ \E s \in Slots : saga[s].pc = "done" /\ saga[s].lookup = "raised"
    /\ \E s \in Slots : saga[s].pc = "done" /\ Cardinality(saga[s].errors) >= 2

\* C6: from the "deleted" response of DELETE until the next request is issued, a
\* status request is answered 404.
C6_NotFoundAfterDelete == afterDelete => PreviewStatusResponse = "404"

\* C7: a record that exists holds service_arn, target_group_arn,
\* listener_rule_arn and eventbridge_rule_name (and expires_at).
C7_RecordComplete ==
    record.exists =>
        /\ record.service_arn /\ record.target_group_arn /\ record.listener_rule_arn
        /\ record.eventbridge_rule_name # None

\* C8: the record create stored holds the expiry create gave it plus the hours
\* of the extends that updated it, whenever those arrived.
C8_ExtendAdditive ==
    (record.exists /\ record.service_arn)
        => record.expires_at = created_expires + granted

\* Two extends of one hour each have updated the record, the second one after
\* the clock had moved, and no call has failed.
C8_TwoExtends ==
    /\ record.exists /\ record.service_arn /\ epc = "idle"
    /\ created_expires = 1 /\ granted = 2 /\ now = 2 /\ nfaults = 0

C10_StatusCascade ==
    status \notin {None, "404"} =>
        LET expired == record.expires_at <= now
            creating == service_status \in {"NoDict", "NoStatus", "DRAINING", "INACTIVE"}
            degraded == target_group_health \in {"unhealthy", "initial"}
        IN /\ expired => status = "expired"
           /\ (~expired /\ creating) => status = "creating"
           /\ (~expired /\ ~creating /\ degraded) => status = "degraded"
           /\ (~expired /\ ~creating /\ ~degraded) => status = "active"

\* The boundary: a running, healthy preview asked at the instant it expires.
C10_ExpiredAtBoundary ==
    /\ status = "expired" /\ record.expires_at = now
    /\ service_status = "ACTIVE" /\ target_group_health = "healthy"

\* C11: the preview created with ttl_hours = ScenarioTtl at hour 0 holds
\* expires_at = ScenarioTtl; a status request answered while the record exists
\* gives creating before the expiry when the service reports no status, active
\* before the expiry when the service reports ACTIVE and the target group
\* healthy, and expired at or after the expiry.
C11_Scenario ==
    [][(preview_status /\ record.exists) =>
          /\ record.expires_at = ScenarioTtl
          /\ (now < ScenarioTtl /\ service_status \in {"NoDict", "NoStatus"})
                 => status' = "creating"
          /\ (now < ScenarioTtl /\ service_status = "ACTIVE"
                 /\ target_group_health = "healthy") => status' = "active"
          /\ now >= ScenarioTtl => status' = "expired"
    ]_vars

\* The created preview, running and healthy, asked after its expiry while the
\* handler has not yet removed the record.
C11_ExpiredWhileRecorded ==
    /\ cpc = "ok" /\ record.exists /\ created_expires = ScenarioTtl
    /\ now > ScenarioTtl /\ status = "expired"
    /\ service_status = "ACTIVE" /\ target_group_health = "healthy"

\* C12: GET /preview answers 200 with exactly one entry per item of the table,
\* in the table's order, and total equal to the number of items, whichever
\* service and health queries fail; the entry of an item whose query failed
\* has that optional field empty; and every entry is what its own item and
\* its own two answers give, whatever happened to the other items.
C12_ListIsolatesFailures ==
    list_response.code # None =>
        /\ list_response.code = "200"
        /\ list_response.total = Len(items)
        /\ Len(list_response.items) = Len(items)
        /\ \A i \in 1..Len(items) :
              LET entry == list_response.items[i]
                  answered == IF service_answer[i] = Raises THEN "NoDict"
                              ELSE service_answer[i]
                  health == IF health_answer[i] = Raises \/ ~items[i].target_group_arn
                            THEN "NoDict" ELSE health_answer[i]
              IN  /\ entry.preview_id = items[i].preview_id
                  /\ entry.expires_at = items[i].expires_at
                  /\ service_answer[i] = Raises => entry.service_status = None
                  /\ health_answer[i] = Raises => entry.target_group_health = None
                  /\ entry = PreviewStatusOf(items[i], answered, health)

\* Two items listed: the service query of the first failed and its health
\* query answered, the health query of the second failed.
C12_ListedDespiteFailures ==
    /\ list_response.code = "200" /\ Len(items) = 2
    /\ service_answer[1] = Raises /\ health_answer[1] = "healthy"
    /\ service_answer[2] = "ACTIVE" /\ health_answer[2] = Raises
    /\ items[2].target_group_arn /\ items[2].expires_at > now
    /\ list_response.items[2].status = "active"
    /\ list_response.items[2].service_status = "ACTIVE"

\* C13: a get, status, extend or delete request for a preview_id that has no
\* item answers 404 and leaves the item absent, every sub-resource, every rule
\* and every handler run as they were, and starts nothing of its own.
C13_NotFoundChangesNothing ==
    [][~record.exists =>
          /\ (get_preview \/ preview_status) => status' = "404"
          /\ (\E h \in AdditionalHoursInputs : extend_preview(h))
                 => response'["extend"] = NotFound
          /\ delete_preview => response'["delete"] = NotFound
          /\ (\/ get_preview \/ preview_status \/ delete_preview
              \/ \E h \in AdditionalHoursInputs : extend_preview(h))
                 => UNCHANGED <<provider, saga, extendv, deletev, createv, clock>>
    ]_vars

\* All three kinds of request answered 404 after the preview was created and
\* deleted, its ECS service still there.
C13_AllNotFound ==
    /\ ~record.exists /\ cpc = "ok"
    /\ ecs_service
    /\ status = "404"
    /\ response["extend"] = NotFound
    /\ response["delete"] = NotFound

\* C14: a create request whose ttl_hours is outside MinTtlHours..MaxTtlHours and
\* an extend request whose additional_hours is outside MinAdditionalHours..
\* MaxAdditionalHours are answered with the validation error and nothing else
\* happens: no handler is entered, no sub-resource, rule or item is created or
\* changed.
C14_InvalidRejected ==
    [][/\ \A ttl \in TtlInputs :
             (/\ ttl < MinTtlHours \/ ttl > MaxTtlHours
              /\ create_preview(ttl) \/ create_preview_rejected(ttl))
                => /\ response'["create"] = UnprocessableEntity
                   /\ UNCHANGED <<provider, createv, extendv, deletev, saga, faults>>
       /\ \A h \in AdditionalHoursInputs :
             (/\ h < MinAdditionalHours \/ h > MaxAdditionalHours
              /\ extend_preview(h) \/ extend_preview_rejected(h))
                => /\ response'["extend"] = UnprocessableEntity
                   /\ UNCHANGED <<provider, createv, extendv, deletev, saga, faults>>
    ]_vars

\* Both requests rejected before any create was accepted: the account is empty.
C14_BothRejected ==
    /\ response["create"] = UnprocessableEntity
    /\ response["extend"] = UnprocessableEntity
    /\ cpc = "idle" /\ ~record.exists /\ ~target_group /\ ~ecs_service
    /\ \A n \in RuleNames : ~rules[n].exists

\* C15 as stated: once a create that failed at the listener-rule step has
\* returned its error, a status request answers 404 and neither the ECS
\* service nor the target group is there.
C15_RuleFailureCompensated ==
    (cpc = "failed" /\ cfault = "rule") =>
        /\ PreviewStatusResponse = "404"
        /\ ~ecs_service /\ ~target_group

\* C15 amended: once a create that failed at the listener-rule step has
\* returned its error, a status request answers 404 and no listener rule is
\* there; the ECS service and the target group are gone when no call of the
\* compensation failed, and what is left of them is left by a failed call.
C15_CompensatedUnlessCleanupFails ==
    (cpc = "failed" /\ cfault = "rule") =>
        /\ PreviewStatusResponse = "404"
        /\ ~listener_rule
        /\ ~compfail => (~ecs_service /\ ~target_group)

\* The create failed at the listener-rule step, the compensation went through
\* and a status request was answered 404.
C15_RuleFailureCleanedUp ==
    /\ cpc = "failed" /\ cfault = "rule" /\ ~compfail
    /\ response["create"].code = "500"
    /\ status = "404"
    /\ ~ecs_service /\ ~target_group

\* C16: a create of which a step failed answers 500 naming that step's
\* failure, whichever calls of the compensation failed as well; a create
\* answers success only when no step failed.
C16_OriginalCauseReported ==
    /\ cpc = "failed" =>
          /\ cfault # "none"
          /\ response["create"] = [code |-> "500", detail |-> cfault]
    /\ (cfault # "none" /\ response["create"] # NoResponse) =>
          response["create"].code = "500"
    /\ response["create"] = Ok => (cpc = "ok" /\ cfault = "none" /\ ~compfail)

\* The scheduling step failed and then both compensation calls of create_preview
\* failed as well; the 500 names the scheduling failure.
C16_CompensationFailedToo ==
    /\ cpc = "failed" /\ cfault = "schedule" /\ compfail /\ nfaults = 3
    /\ response["create"] = [code |-> "500", detail |-> "schedule"]

\* C17: a handler run that found the item answers 200 exactly when no teardown
\* call answered an error, and otherwise 207 with an error list that names
\* exactly the steps whose call answered an error.
C17_OutcomeMatchesFailures ==
    \A s \in Slots :
        (saga[s].pc = "done" /\ saga[s].lookup = "item") =>
            /\ saga[s].outcome = "200" <=> saga[s].failed = {}
            /\ saga[s].outcome # "200" =>
                  (saga[s].outcome = "207" /\ saga[s].errors = saga[s].failed)

C19_EveryStepAttempted ==
    \A s \in Slots :
        (saga[s].pc = "done" /\ saga[s].lookup = "item") =>
            /\ "ddb" \in saga[s].attempted
            /\ saga[s].attempted =
                  {"eb", "ddb"}
                  \cup (IF saga[s].meta.service_arn THEN {"ecs"} ELSE {})
                  \cup (IF saga[s].meta.listener_rule_arn THEN {"lrule"} ELSE {})
                  \cup (IF saga[s].meta.target_group_arn THEN {"tg"} ELSE {})

\* A run in which the four sub-resource steps all failed and the deletion of
\* the item was attempted all the same.
C19_AllFailedStillAttempted ==
    \E s \in Slots :
        /\ saga[s].pc = "done" /\ saga[s].lookup = "item"
        /\ {"ecs", "lrule", "tg", "eb"} \subseteq saga[s].failed
        /\ "ddb" \in saga[s].attempted

\* The order the teardown steps are to keep, and the place of a step in it.
TeardownOrder == <<"ecs", "lrule", "tg", "eb", "ddb">>

PositionIn(order, step) == CHOOSE i \in 1..Len(order) : order[i] = step

\* C20: in every handler run the teardown calls are issued in the order ECS
\* service, listener rule, target group, EventBridge rule, item; and among the
\* calls of create's compensation, as among the handler's, a deletion of the
\* listener rule is never issued after the deletion of the target group.
C20_TeardownOrder ==
    /\ \A s \in Slots : \A i, j \in 1..Len(saga[s].order) :
          i < j => PositionIn(TeardownOrder, saga[s].order[i])
                     < PositionIn(TeardownOrder, saga[s].order[j])
    /\ \A i, j \in 1..Len(c_order) :
          (c_order[i] = "tg" /\ c_order[j] = "lrule") => j < i

\* A handler run on the created preview that issued all five calls, in that
\* order.
C20_FullTeardown ==
    /\ cpc = "ok"
    /\ \E s \in Slots : saga[s].pc = "done" /\ saga[s].order = TeardownOrder

\* The steps named in a sequence of calls.
StepsOf(order) == {order[i] : i \in 1..Len(order)}

\* C21: once a create that failed after the target group was created has
\* returned, its compensation has issued the deletion of every sub-resource
\* created before the failure: the listener rule if it was bound, then the ECS
\* service if it was created, then the target group; and the deletion of the
\* EventBridge rule and of the item.
C21_CompensationAttemptsAll ==
    (cpc = "failed" /\ cfault \notin {"none", "pool"}) =>
        /\ "tg" \in StepsOf(c_order)
        /\ cfault \in {"rule", "schedule", "store"} => "ecs" \in StepsOf(c_order)
        /\ cfault \in {"schedule", "store"} => "lrule" \in StepsOf(c_order)
        /\ {"eb", "ddb"} \subseteq StepsOf(c_order)
        /\ \A i, j \in 1..Len(c_order) :
              i < j => PositionIn(<<"lrule", "ecs", "tg", "eb", "ddb">>, c_order[i])
                         < PositionIn(<<"lrule", "ecs", "tg", "eb", "ddb">>, c_order[j])

\* The resource a teardown step of run s is to delete exists.
TargetExists(s, step) ==
    CASE step = "ecs" -> ecs_service
      [] step = "lrule" -> listener_rule
      [] step = "tg" -> target_group
      [] step = "eb" -> rules[saga[s].meta.eventbridge_rule_name].exists

\* C22: a teardown call of the handler issued for a resource that does not
\* exist, and answered so by the provider, adds no entry to the error list; a
\* run that found the item and met no failing call answers 200.
C22_AbsentIsSuccess ==
    [][\A s \in Slots :
          /\ \A step \in {"ecs", "lrule", "tg", "eb"} :
                (/\ saga[s].pc = step
                 /\ step \notin saga[s].attempted /\ step \in saga'[s].attempted
                 /\ ~TargetExists(s, step)
                 /\ nfaults' = nfaults)
                   => saga'[s].errors = saga[s].errors
          /\ (saga'[s].pc = "done" /\ saga'[s].lookup = "item" /\ saga'[s].failed = {})
                => saga'[s].outcome = "200"
    ]_vars

\* A second run that still read the item, after a first run that removed all
\* four resources and failed only to delete the item: it issued all five
\* calls, found the four resources gone and answered 200.
C22_AllAbsent ==
    \E s, t \in Slots :
        /\ saga[t].pc = "done" /\ saga[t].order = TeardownOrder
        /\ saga[t].failed = {"ddb"}
        /\ saga[s].second /\ saga[s].pc = "done" /\ saga[s].lookup = "item"
        /\ saga[s].order = TeardownOrder
        /\ saga[s].errors = {} /\ saga[s].outcome = "200"

\* C23: the step that deletes the item of a preview, in delete_preview or in
\* the handler, is taken only when the ECS service, the listener rule, the
\* target group and the schedule of the preview are gone.
C23_RecordDeletedLast ==
    [][(record.exists /\ ~record'.exists) => (NoSubResource' /\ NoSchedule')]_vars

\* C24: delete_ecs_service comes to an end; it calls describe_services at most
\* max_wait / PollInterval times, goes on to the deletion as soon as a poll
\* shows runningCount 0 and sleeps only after one that does not, and when it
\* returns after a poll it has issued delete_service, whether the count
\* reached 0 or the wait ran out.
C24_DrainTerminates ==
    /\ <>(drain.pc \in {"returned", "raised"})
    /\ [](drain.polls * PollInterval <= max_wait)
    /\ [](drain.pc = "sleep" => drain.running_count # 0)
    /\ [](drain.pc = "delete" =>
             (drain.running_count = 0 \/ drain.wait_time >= max_wait))
    /\ []((drain.pc = "returned" /\ drain.polls > 0) => drain.deleted)

\* The running count never reached zero: after the last poll allowed the wait
\* ran out and the service was deleted all the same.
C24_DeletedAfterTimeout ==
    /\ drain.pc = "returned" /\ drain.deleted
    /\ drain.running_count # 0
    /\ drain.wait_time = max_wait
    /\ drain.polls * PollInterval = max_wait

\* C25: _add_listener_rule calls create_rule at most max_retries times; it
\* goes to a further attempt only on PriorityInUse, and then with another
\* priority; after any other error, and after PriorityInUse on the last
\* attempt, it makes no further call and raises; the create request whose
\* binding raised fails on the listener rule and is answered 500.
C25_BoundedRetries ==
    [][/\ binding'.calls <= max_retries
       /\ binding'.attempt = binding.attempt + 1 =>
              /\ binding'.error = "PriorityInUse"
              /\ binding'.priority # binding.priority
       /\ (binding'.error \notin {None, "PriorityInUse"}
           \/ (binding'.error = "PriorityInUse" /\ binding'.calls = max_retries)) =>
              binding'.pc \in {"raised", "left"}
       /\ (binding'.pc = "left" /\ binding'.error # None) =>
              /\ cfault' = "rule"
              /\ cpc' \in {"cleanup", "except", "failed"}
              /\ cpc' = "failed" => response'["create"].code = "500"]_vars

\* The conflict on the last attempt: ten calls made, the tenth answered
\* PriorityInUse, and the create request answered 500.
C25_RetriesExhausted ==
    /\ binding.calls = max_retries /\ binding.error = "PriorityInUse"
    /\ binding.pc = "left"
    /\ cpc = "failed" /\ response["create"].code = "500"

CallsInOrder(order) ==
    \A i, j \in 1..Len(teardown.calls) :
        i < j => PositionIn(order, teardown.calls[i]) < PositionIn(order, teardown.calls[j])

\* C26 as stated: delete_eventbridge_rule removes the targets, then deletes the
\* rule, and only then removes the permission.
C26_PermissionLast ==
    CallsInOrder(<<"list_targets_by_rule", "remove_targets", "delete_rule",
                   "remove_permission">>)

\* C26: delete_eventbridge_rule removes the targets first, then the permission
\* of each Lambda target listed, and deletes the rule last; the permission is
\* removed only after targets were listed and removed.
C26_RuleLast ==
    /\ CallsInOrder(<<"list_targets_by_rule", "remove_targets", "remove_permission",
                      "delete_rule">>)
    /\ \A i \in 1..Len(teardown.calls) :
          teardown.calls[i] = "remove_permission" =>
              /\ i > 1 /\ teardown.calls[i - 1] = "remove_targets"
              /\ teardown.listed /\ teardown.arn = "lambda"

\* The whole step on a rule with its Lambda target: all four calls made.
C26_TargetPermissionRule ==
    /\ teardown.pc = "return"
    /\ teardown.calls = <<"list_targets_by_rule", "remove_targets", "remove_permission",
                          "delete_rule">>
    /\ ~TheRule.exists

\* C27: DELETE on an item that exists starts the handler, then attempts the
\* deletion of the stored rule and goes on to delete_preview_metadata whether
\* the rule deletion raised or not; the item deletion that answers removes the
\* item and the request is answered "deleted".
C27_CancelFailureSwallowed ==
    [][/\ (dpc = "idle" /\ dpc' # "idle") => (record.exists /\ dpc' = "invoke")
       /\ (dpc = "invoke" /\ dpc' \notin {"invoke", "idle"}) =>
              (dpc' = "cancel" /\ saga'["manual"].pc = "read")
       /\ (dpc = "cancel" /\ dpc' # "cancel") => dpc' = "metadata"
       /\ (dpc = "metadata" /\ dpc' # "metadata" /\ nfaults' = nfaults) =>
              /\ ~record'.exists
              /\ response'["delete"] = [code |-> "200", detail |-> "deleted"]]_vars

\* The rule deletion failed (the one failing call, and the rule is still
\* there), and the item is gone and the request answered "deleted".
C27_DeletedDespiteCancelFailure ==
    /\ afterDelete /\ dpc = "idle"
    /\ response["delete"] = [code |-> "200", detail |-> "deleted"]
    /\ ~record.exists
    /\ nfaults = 1
    /\ rules[CanonicalRuleName(PreviewId)].exists
    /\ rules[CanonicalRuleName(PreviewId)].target

Provisioning == {"target_group", "ecs_service", "listener_rule", "schedule", "store",
                 "cleanup", "except"}

CreateOrder == <<"target_group", "ecs_service", "listener_rule", "schedule", "store", "ok">>

\* C28: the steps of create that return follow each other in the order target
\* group, ECS service, listener rule, schedule, item; the item is written with
\* all four sub-resources in place; while the create request is at any of its
\* steps no item exists, and a GET, an extend and a DELETE request answered
\* meanwhile are answered 404 (an extend request with an invalid body, 422).
C28_RecordStoredLast ==
    [][/\ (cpc \in Provisioning /\ cpc' \notin {cpc, "cleanup", "except", "failed"}) =>
              PositionIn(CreateOrder, cpc') = PositionIn(CreateOrder, cpc) + 1
       /\ (cpc \in Provisioning /\ record'.exists) =>
              /\ cpc = "store" /\ cpc' = "ok"
              /\ target_group' /\ ecs_service' /\ listener_rule'
              /\ rules'[CanonicalRuleName(PreviewId)].exists
       /\ cpc \in Provisioning =>
              /\ ~record.exists
              /\ status' # status => status' = "404"
              /\ response'["extend"] # response["extend"] =>
                     response'["extend"] \in {NotFound, UnprocessableEntity}
              /\ response'["delete"] # response["delete"] => response'["delete"] = NotFound
       ]_vars

\* A create request at its schedule step, with a GET and a DELETE request
\* answered 404 since it started.
C28_NotVisibleWhileProvisioning ==
    /\ cpc = "schedule"
    /\ target_group /\ ecs_service /\ listener_rule
    /\ ~record.exists
    /\ status = "404"
    /\ response["delete"] = NotFound
    /\ response["extend"] = NotFound

\* The ARN the item held for a step's sub-resource, if any.
Reference(locals, step) ==
    CASE step = "ecs" -> locals.service_arn
      [] step = "lrule" -> locals.listener_rule_arn
      [] step = "tg" -> locals.target_group_arn

\* The locals of a run whose item held no ARN of some sub-resource.
Partial(locals) ==
    /\ locals.found
    /\ \E step \in {"ecs", "lrule", "tg"} : ~Reference(locals, step)

\* C29: a handler run on an item that lacks references takes the canonical
\* rule name when the item names no rule, neither calls nor records a failure
\* for a step whose reference is missing, has attempted every other step and
\* the item deletion when it ends, and the item deletion that answers leaves
\* no item.
C29_MissingReferencesSkipped ==
    [][\A s \in Slots :
          /\ (saga[s].pc = "read" /\ saga'[s].pc = "ecs"
                /\ record.eventbridge_rule_name = None) =>
                 saga'[s].meta.eventbridge_rule_name = CanonicalRuleName(PreviewId)
          /\ Partial(saga'[s].meta) =>
                 /\ \A step \in {"ecs", "lrule", "tg"} :
                        IF Reference(saga'[s].meta, step)
                        THEN saga'[s].pc = "done" => step \in saga'[s].attempted
                        ELSE step \notin saga'[s].attempted \cup saga'[s].errors
                 /\ saga'[s].pc = "done" => {"eb", "ddb"} \subseteq saga'[s].attempted
                 /\ (saga[s].pc = "ddb" /\ saga'[s].pc = "done" /\ nfaults' = nfaults) =>
                        ~record'.exists]_vars

\* The run on the item that holds an expiry only: the rule of the canonical
\* name and the item are gone, no other step was called, no failure recorded.
C29_OnlyScheduleAndRecord ==
    \E s \in Slots :
        /\ saga[s].pc = "done" /\ Partial(saga[s].meta)
        /\ saga[s].order = <<"eb", "ddb">>
        /\ saga[s].errors = {} /\ saga[s].outcome = "200"
        /\ saga[s].meta.eventbridge_rule_name = CanonicalRuleName(PreviewId)
        /\ ~record.exists
        /\ ~rules[CanonicalRuleName(PreviewId)].exists
        /\ ecs_service /\ target_group

\* C30: whenever a handler run that found the item answers 200, the item no
\* longer exists.
C30_SuccessMeansRecordGone ==
    \A s \in Slots :
        (saga[s].pc = "done" /\ saga[s].lookup = "item" /\ saga[s].outcome = "200") =>
            ~record.exists

\* C31: whenever no extend request is in flight, the rule the item names, if it
\* exists, fires at the item's expires_at; and no handler run the scheduler
\* started is in flight before the item's expires_at.
C31_ScheduleMatchesRecord ==
    /\ (epc = "idle" /\ record.exists /\ record.eventbridge_rule_name # None
          /\ rules[record.eventbridge_rule_name].exists) =>
             rules[record.eventbridge_rule_name].at = record.expires_at
    /\ (Running("scheduled") /\ record.exists) => record.expires_at <= now

\* C32: every priority passed to create_rule, the first one and each one after
\* a conflict, lies in 1000..49999, and the priorities passed within one call
\* of _add_listener_rule are pairwise distinct.
C32_PrioritiesInRange ==
    /\ binding.tried \subseteq 1000..49999
    /\ Cardinality(binding.tried) = binding.calls
    /\ binding.pc = "create_rule" =>
          /\ binding.priority \in 1000..49999
          /\ binding.priority \notin binding.tried

\* Ten calls made, the first with the highest priority and the second with the
\* one the perturbation wraps to.
C32_TenDistinctPriorities ==
    /\ binding.calls = max_retries
    /\ Cardinality(binding.tried) = max_retries
    /\ {49999, 2000} \subseteq binding.tried

\* C33: the statement id delete_eventbridge_rule removes is the one
\* schedule_cleanup granted for the same preview_id, so that after a removal
\* that answered the policy holds no statement of the preview.
C33_GrantedStatementRemoved ==
    grant.pc = "removed" =>
        /\ grant.removed = granted_statement_id(grant.preview_id)
        /\ nfaults = 0 => grant.policy = {}

\* C34: the instant named by the cron expression built from expires_at is
\* never earlier than expires_at.
C34_FireNotBeforeExpiry ==
    cron.pc = "scheduled" => cron.fire >= cron.expires_at

\* C35: the rule name an item holds is the canonical one and does not change
\* while the item exists; every rule put, replaced or deleted for the preview
\* carries that name, so that at most one rule of the preview exists.
C35_OneRuleName ==
    [][/\ (record'.exists /\ record'.eventbridge_rule_name # None) =>
              record'.eventbridge_rule_name = CanonicalRuleName(PreviewId)
       /\ (record.exists /\ record'.exists) =>
              record'.eventbridge_rule_name = record.eventbridge_rule_name
       /\ \A n \in RuleNames :
              (rules'[n] # rules[n] \/ rules'[n].exists) => n = CanonicalRuleName(PreviewId)
       /\ \A s \in Slots :
              saga'[s].meta.found =>
                  saga'[s].meta.eventbridge_rule_name = CanonicalRuleName(PreviewId)
       /\ Cardinality({n \in RuleNames : rules'[n].exists}) <= 1]_vars

\* An extend has read the item that names no rule, updated it and put the
\* rule: the one rule of the preview stands under the canonical name at the
\* item's expiry.
C35_FallbackNameUsed ==
    /\ epc = "idle" /\ response["extend"] = Ok
    /\ record.exists /\ record.eventbridge_rule_name = None
    /\ granted > 0
    /\ rules[CanonicalRuleName(PreviewId)].exists
    /\ rules[CanonicalRuleName(PreviewId)].at = record.expires_at
    /\ ~rules["tempus-cleanup-other"].exists

\* C36: the step of a DELETE request at which invoke_cleanup fails ends the
\* request with 500, starts no handler run and leaves the item, the rules and
\* the sub-resources as they were.
C36_InvokeFailureChangesNothing ==
    [][(dpc = "invoke" /\ dpc' # "invoke" /\ nfaults' # nfaults) =>
          /\ dpc' = "idle"
          /\ response'["delete"] = InternalServerError
          /\ record' = record /\ rules' = rules
          /\ saga' = saga
          /\ <<target_group, ecs_service, listener_rule>>'
                 = <<target_group, ecs_service, listener_rule>>]_vars

\* The DELETE request has ended with 500 on the failed invocation: no handler
\* run was started, and the item, the sub-resources and the rule that is still
\* to fire are all there.
C36_StillScheduled ==
    /\ dpc = "idle" /\ response["delete"] = InternalServerError
    /\ nfaults = 1 /\ granted = 0 /\ epc = "idle"
    /\ ~Running("manual") /\ ~Running("scheduled")
    /\ record.exists /\ record.service_arn
    /\ target_group /\ ecs_service /\ listener_rule
    /\ Live(CanonicalRuleName(PreviewId))
====
